---- MODULE Spec2Model ----
(***************************************************************************)
(* Verification model of the scripting-language pipeline: Lexer, Parser,   *)
(* TypeChecker and Interpreter, driven as Compiler.compile drives them,    *)
(* and of the Channel and the software transactional memory of the        *)
(* concurrency library.                                                    *)
(*                                                                         *)
(* AST nodes, types and runtime values are records tagged by `kind`.       *)
(* A JavaScript Map is a TLA+ function over the set of its keys.           *)
(* A thrown exception is a result record whose `sig` is "err" (an Error)   *)
(* or "ret" (a ReturnException); `sig` "ok" is normal completion.          *)
(***************************************************************************)
EXTENDS Integers, Sequences, FiniteSets, TLC

(***************************************************************************)
(* Bounds of the model.                                                    *)
(***************************************************************************)
\* depth of nested calls at which the host call stack is exhausted
MaxCallDepth == 3
\* number of interpret calls made on one Interpreter instance
MaxRuns == 2
\* largest capacity of a Channel, and the numbers of send and receive calls
MaxCapacity == 2
MaxSends == 3
MaxReceives == 3
\* number of STM.atomically calls in flight, and the retries of one call
\* (maxRetries is 100 in the library)
MaxTasks == 3
maxRetries == 2

\* addDependency calls on one resolver
MaxAdds == 3

\* calls of then and catch, and calls of the resolve and reject functions
MaxHandlers == 2
MaxSettles == 2

\* send calls on the actor system
MaxMessages == 4

\* schedule calls on one scheduler
MaxScheduled == 7

\* activations of visit that fit on the host stack
MaxVisitDepth == 6

(***************************************************************************)
(* Maps                                                                    *)
(***************************************************************************)
EmptyMap == <<>>

MapHas(m, k) == k \in DOMAIN m

MapSet(m, k, v) == [x \in (DOMAIN m) \cup {k} |-> IF x = k THEN v ELSE m[x]]

\* the value of a function whose domain has one element: in
\* Only([x \in {e} |-> body]), x names the value of e, computed once
Only(f) == f[CHOOSE x \in DOMAIN f : TRUE]

Null == [kind |-> "Null"]

IsNull(x) == x.kind = "Null"

(***************************************************************************)
(* Type system (src/src/types/types.ts)                                    *)
(***************************************************************************)
PrimitiveType(name) == [kind |-> "PrimitiveType", name |-> name]

FunctionType(params, returnType) ==
  [kind |-> "FunctionType", params |-> params, returnType |-> returnType]

OptionType(innerType) == [kind |-> "OptionType", innerType |-> innerType]

ResultType(okType, errorType) ==
  [kind |-> "ResultType", okType |-> okType, errorType |-> errorType]

(***************************************************************************)
(* AST nodes (src/src/ast/nodes.ts).  `type` is the checker's annotation,  *)
(* Null while unset.                                                       *)
(***************************************************************************)
NumberLiteral(n) == [kind |-> "NumberLiteral", num |-> n, den |-> 1, type |-> Null]

StringLiteral(s) == [kind |-> "StringLiteral", value |-> s, type |-> Null]

BooleanLiteral(b) == [kind |-> "BooleanLiteral", value |-> b, type |-> Null]

Identifier(name) == [kind |-> "Identifier", name |-> name, type |-> Null]

BinaryExpression(left, operator, right) ==
  [kind |-> "BinaryExpression", left |-> left, operator |-> operator,
   right |-> right, type |-> Null]

FunctionCall(callee, args) ==
  [kind |-> "FunctionCall", callee |-> callee, args |-> args, type |-> Null]

VariableDeclaration(name, typeAnnotation, initializer, isConst) ==
  [kind |-> "VariableDeclaration", name |-> name,
   typeAnnotation |-> typeAnnotation, initializer |-> initializer,
   isConst |-> isConst]

Param(name, type) == [name |-> name, type |-> type]

FunctionDeclaration(name, params, returnType, body) ==
  [kind |-> "FunctionDeclaration", name |-> name, params |-> params,
   returnType |-> returnType, body |-> body]

\* elseBranch is either Null or [kind |-> "Block", statements |-> ...]
Block(statements) == [kind |-> "Block", statements |-> statements]

IfStatement(condition, thenBranch, elseBranch) ==
  [kind |-> "IfStatement", condition |-> condition,
   thenBranch |-> thenBranch, elseBranch |-> elseBranch]

ReturnStatement(value) == [kind |-> "ReturnStatement", value |-> value]

ExpressionStatement(expression) ==
  [kind |-> "ExpressionStatement", expression |-> expression]

(***************************************************************************)
(* Runtime values (src/src/interpreter/interpreter.ts, 1-68).  A number is *)
(* an exact rational num/den in lowest terms with den > 0.                 *)
(***************************************************************************)
Abs(n) == IF n < 0 THEN -n ELSE n

RECURSIVE Gcd(_, _)
Gcd(a, b) == IF b = 0 THEN a ELSE Gcd(b, a % b)

Rational(n, d) ==
  LET g == Gcd(Abs(n), Abs(d))
      s == IF d < 0 THEN -1 ELSE 1
  IN  [kind |-> "Number", num |-> (s * n) \div g, den |-> (s * d) \div g]

NumberValue(n) == [kind |-> "Number", num |-> n, den |-> 1]

StringValue(s) == [kind |-> "String", value |-> s]

BooleanValue(b) == [kind |-> "Boolean", value |-> b]

FunctionValue(declaration, closure) ==
  [kind |-> "Function", declaration |-> declaration, closure |-> closure]

ResultValue(isOk, value) == [kind |-> "Result", isOk |-> isOk, value |-> value]

OptionValue(value) == [kind |-> "Option", value |-> value]

BuiltinFunction(name, arity) == [kind |-> "Builtin", name |-> name, arity |-> arity]

(***************************************************************************)
(* TokenType members used as operators (src/src/lexer/lexer.ts, 26-37)     *)
(***************************************************************************)
ASSIGN == "="
PLUS == "+"
MINUS == "-"
MULTIPLY == "*"
DIVIDE == "/"
EQUAL == "=="
NOT_EQUAL == "!="
LESS == "<"
GREATER == ">"
ARROW == "->"
FAT_ARROW == "=>"

(***************************************************************************)
(* Interpreter (src/src/interpreter/interpreter.ts, 70-272)                *)
(*                                                                         *)
(* The interpreter's mutable fields travel in a record st:                 *)
(*   env      this.environment                                             *)
(*   depth    number of Interpreter.call activations on the host stack     *)
(*   log      observation trace: one event per step of interest, each      *)
(*            stamped with the activation (frame), the executeBlock        *)
(*            activation (blk) and this.environment at that moment         *)
(*   frame, nframes, blk, nblks   identities of activations for the trace  *)
(* A "binary" event records the operands and the outcome of a binary       *)
(* expression whose operands both evaluated.                               *)
(***************************************************************************)
R(st, sig, val) == [st |-> st, sig |-> sig, val |-> val]

Throw(st, message) == R(st, "err", message)

Emit(st, ev, name, val, aux) ==
  [st EXCEPT !.log = Append(@, [ev |-> ev, frame |-> st.frame, blk |-> st.blk,
                                env |-> st.env, name |-> name, val |-> val,
                                aux |-> aux])]

\* line 106: this.environment.set(name, value)
Bind(st, name, value) ==
  Emit([st EXCEPT !.env = MapSet(@, name, value)], "bind", name, value, Null)

lookupVariable(env, name) == IF MapHas(env, name) THEN env[name] ELSE Null

isTruthy(value) ==
  IF value.kind = "Boolean" THEN value.value
  ELSE IF value.kind = "Number" THEN value.num # 0
  ELSE TRUE

\* The three comparison lines of isEqual are elided in the source file; they
\* are restored as value equality within the number, string and boolean
\* variants.
isEqual(a, b) ==
  IF a.kind = "Number" /\ b.kind = "Number" THEN a.num = b.num /\ a.den = b.den
  ELSE IF a.kind = "String" /\ b.kind = "String" THEN a.value = b.value
  ELSE IF a.kind = "Boolean" /\ b.kind = "Boolean" THEN a.value = b.value
  ELSE FALSE

NumLess(a, b) == a.num * b.den < b.num * a.den

\* the switch over two NumberValue operands (lines 174-194); the guard of the
\* division-by-zero throw and the EQUAL result line are elided in the source
\* file and restored here
NumericCases == {PLUS, MINUS, MULTIPLY, DIVIDE, GREATER, LESS, EQUAL, NOT_EQUAL}

\* a quotient by zero, as the host's arithmetic computes it: the sentinel
\* num/0 (Infinity, or NaN when num is 0)
Divide_Sentinel(st, left, right) ==
  IF right.num = 0 THEN R(st, "ok", [kind |-> "Number", num |-> left.num, den |-> 0])
  ELSE R(st, "ok", Rational(left.num * right.den, left.den * right.num))

\* case TokenType.DIVIDE (lines 182-185)
Divide(st, left, right) ==
  IF right.num = 0 THEN Throw(st, "Division by zero")
  ELSE R(st, "ok", Rational(left.num * right.den, left.den * right.num))

NumericOperation(st, op, left, right) ==
  CASE op = PLUS ->
         R(st, "ok", Rational(left.num * right.den + right.num * left.den,
                              left.den * right.den))
    [] op = MINUS ->
         R(st, "ok", Rational(left.num * right.den - right.num * left.den,
                              left.den * right.den))
    [] op = MULTIPLY ->
         R(st, "ok", Rational(left.num * right.num, left.den * right.den))
    [] op = DIVIDE -> Divide(st, left, right)
    [] op = GREATER -> R(st, "ok", BooleanValue(NumLess(right, left)))
    [] op = LESS -> R(st, "ok", BooleanValue(NumLess(left, right)))
    [] op = EQUAL ->
         R(st, "ok", BooleanValue(left.num = right.num /\ left.den = right.den))
    [] op = NOT_EQUAL ->
         R(st, "ok", BooleanValue(~(left.num = right.num /\ left.den = right.den)))

\* seeding the call environment from the caller's environment
SeedEnvironment_Caller(func, current) == current

\* line 222: the call environment starts as a copy of the closure
SeedEnvironment(func, current) == func.closure

RECURSIVE BindParams(_, _, _, _)
BindParams(environment, params, args, i) ==
  IF i > Len(params) THEN environment
  ELSE BindParams(MapSet(environment, params[i].name, args[i]), params, args, i + 1)

\* a call that leaves the callee's environment active
RestoreAfterCall_Keep(previous, current) == current

\* lines 241-243: finally { this.environment = previous }
RestoreAfterCall(previous, current) == previous

\* a block that runs on the enclosing map itself instead of a copy
RestoreAfterBlock_Keep(previous, current) == current

\* lines 133-135: finally { this.environment = previous }; the block ran on
\* new Map(previous), so previous itself is untouched
RestoreAfterBlock(previous, current) == previous

\* an implicit return of the body's last value
NoReturnResult_Last(last) == IF IsNull(last) THEN NumberValue(0) ELSE last

\* line 235: the value of a call whose body completed without return;
\* last is the value of the body's last statement
NoReturnResult(last) == NumberValue(0)

\* a return statement that evaluates its value without unwinding
ThrowReturn_Continue(st, value) == R(Emit(st, "return", "", value, Null), "ok", value)

\* line 95: throw new ReturnException(value)
ThrowReturn(st, value) == R(Emit(st, "return", "", value, Null), "ret", value)

RECURSIVE Execute(_, _)
RECURSIVE ExecuteStatements(_, _, _, _)
RECURSIVE ExecuteBlock(_, _)
RECURSIVE ExecuteIfStatement(_, _)
RECURSIVE ExecuteVariableDeclaration(_, _)
RECURSIVE Evaluate(_, _)
RECURSIVE EvaluateArgs(_, _, _, _)
RECURSIVE EvaluateBinaryExpression(_, _)
RECURSIVE EvaluateFunctionCall(_, _)
RECURSIVE Call(_, _, _)

ExecuteFunctionDeclaration(stmt, st) ==
  LET func == FunctionValue(stmt, st.env)
      s1 == Emit(st, "decl", stmt.name, func, Null)
  IN  R([s1 EXCEPT !.env = MapSet(st.env, stmt.name, func)], "ok", Null)

ExecuteVariableDeclaration(stmt, st) ==
  IF IsNull(stmt.initializer)
  THEN R(Bind(st, stmt.name, NumberValue(0)), "ok", Null)
  ELSE Only([r \in {Evaluate(stmt.initializer, st)} |->
         IF r.sig # "ok" THEN r
         ELSE R(Bind(r.st, stmt.name, r.val), "ok", Null)])

ExecuteIfStatement(stmt, st) ==
  Only([c \in {Evaluate(stmt.condition, st)} |->
    IF c.sig # "ok" THEN c
    ELSE LET before == c.st.env
             taken == IF isTruthy(c.val) THEN Block(stmt.thenBranch)
                      ELSE stmt.elseBranch
         IN  IF IsNull(taken) THEN R(c.st, "ok", Null)
             ELSE Only([b \in {ExecuteBlock(taken.statements,
                                            Emit(c.st, "ifenter", "", c.val, Null))} |->
                    R(Emit(b.st, "ifexit", "", b.sig, before), b.sig, b.val)])])

Execute(stmt, st) ==
  Only([s \in {Emit(st, "stmt", stmt.kind, stmt, Null)} |->
    CASE stmt.kind = "VariableDeclaration" -> ExecuteVariableDeclaration(stmt, s)
      [] stmt.kind = "FunctionDeclaration" -> ExecuteFunctionDeclaration(stmt, s)
      [] stmt.kind = "IfStatement" -> ExecuteIfStatement(stmt, s)
      [] stmt.kind = "ExpressionStatement" -> Evaluate(stmt.expression, s)
      [] stmt.kind = "ReturnStatement" ->
           IF IsNull(stmt.value) THEN ThrowReturn(s, NumberValue(0))
           ELSE Only([r \in {Evaluate(stmt.value, s)} |->
                  IF r.sig # "ok" THEN r ELSE ThrowReturn(r.st, r.val)])
      [] OTHER -> R(s, "ok", Null)])

\* for (const statement of statements) this.execute(statement)
ExecuteStatements(statements, i, st, last) ==
  IF i > Len(statements) THEN R(st, "ok", last)
  ELSE Only([r \in {Execute(statements[i], st)} |->
         IF r.sig # "ok" THEN r
         ELSE ExecuteStatements(statements, i + 1, r.st, r.val)])

ExecuteBlock(statements, st) ==
  LET previous == st.env
      bid == st.nblks + 1
  IN  Only([b \in {ExecuteStatements(statements, 1,
                                     [st EXCEPT !.blk = bid, !.nblks = bid], Null)} |->
        R([b.st EXCEPT !.env = RestoreAfterBlock(previous, b.st.env),
                       !.blk = st.blk],
          b.sig, b.val)])

Evaluate(expr, st) ==
  CASE expr.kind = "NumberLiteral" -> R(st, "ok", Rational(expr.num, expr.den))
    [] expr.kind = "StringLiteral" -> R(st, "ok", StringValue(expr.value))
    [] expr.kind = "BooleanLiteral" -> R(st, "ok", BooleanValue(expr.value))
    [] expr.kind = "Identifier" ->
         Only([value \in {lookupVariable(st.env, expr.name)} |->
           LET s == Emit(st, "lookup", expr.name, value, Null)
           IN  IF IsNull(value) THEN Throw(s, "Undefined variable: " \o expr.name)
               ELSE R(s, "ok", value)])
    [] expr.kind = "BinaryExpression" -> EvaluateBinaryExpression(expr, st)
    [] expr.kind = "FunctionCall" -> EvaluateFunctionCall(expr, st)
    [] OTHER -> Throw(st, "Unknown expression type")

EvaluateBinaryExpression(expr, st) ==
  Only([l \in {Evaluate(expr.left, st)} |->
    IF l.sig # "ok" THEN l
    ELSE Only([r \in {Evaluate(expr.right, l.st)} |->
           IF r.sig # "ok" THEN r
           ELSE Only([out \in {
                  IF l.val.kind = "Number" /\ r.val.kind = "Number"
                     /\ expr.operator \in NumericCases
                  THEN NumericOperation(r.st, expr.operator, l.val, r.val)
                  ELSE IF expr.operator = EQUAL
                  THEN R(r.st, "ok", BooleanValue(isEqual(l.val, r.val)))
                  ELSE IF expr.operator = NOT_EQUAL
                  THEN R(r.st, "ok", BooleanValue(~isEqual(l.val, r.val)))
                  ELSE Throw(r.st, "Invalid binary operation")} |->
                  R(Emit(out.st, "binary", expr.operator, out.val,
                         [left |-> l.val, right |-> r.val, sig |-> out.sig]),
                    out.sig, out.val)])])])

\* expr.args.map(arg => this.evaluate(arg)), left to right
EvaluateArgs(args, i, st, acc) ==
  IF i > Len(args) THEN R(st, "ok", acc)
  ELSE Only([r \in {Evaluate(args[i], st)} |->
         IF r.sig # "ok" THEN r
         ELSE EvaluateArgs(args, i + 1, r.st, Append(acc, r.val))])

EvaluateFunctionCall(expr, st) ==
  Only([c \in {Evaluate(expr.callee, st)} |->
    IF c.sig # "ok" THEN c
    ELSE IF c.val.kind # "Function"
         THEN Throw(Emit(c.st, "notfunction", "", c.val, Null),
                    "Can only call functions")
    ELSE Only([a \in {EvaluateArgs(expr.args, 1, c.st, <<>>)} |->
           IF a.sig # "ok" THEN a
           ELSE IF Len(a.val) # Len(c.val.declaration.params)
                THEN Throw(a.st, "Expected n arguments but got m")
           ELSE Call(c.val, a.val, a.st)])])

\* The host call stack is finite: the activation that would exceed it
\* raises the host's stack-exhaustion error instead of running.
Call(func, args, st) ==
  IF st.depth >= MaxCallDepth
  THEN Throw(st, "Maximum call stack size exceeded")
  ELSE
  LET environment == BindParams(SeedEnvironment(func, st.env),
                                func.declaration.params, args, 1)
      previous == st.env
      fid == st.nframes + 1
  IN  Only([b \in {ExecuteBlock(func.declaration.body,
                                Emit([st EXCEPT !.env = environment, !.frame = fid,
                                                !.nframes = fid, !.depth = @ + 1],
                                     "call", func.declaration.name, func, args))} |->
        LET sig == IF b.sig = "err" THEN "err" ELSE "ok"
            val == IF b.sig = "ok" THEN NoReturnResult(b.val) ELSE b.val
        IN  R([Emit([b.st EXCEPT !.env = RestoreAfterCall(previous, b.st.env)],
                    "callexit", func.declaration.name, val,
                    [sig |-> sig, body |-> b.sig, last |-> b.val,
                     before |-> previous])
                 EXCEPT !.frame = st.frame, !.depth = st.depth],
              sig, val)])

RECURSIVE InterpretStatements(_, _, _)

\* a loop that catches per statement and goes on with the next one
InterpretStatements_Continue(statements, i, st) ==
  IF i > Len(statements) THEN R(st, "ok", Null)
  ELSE Only([r \in {Execute(statements[i], Emit(st, "top", "", i, Null))} |->
         Only([n \in {InterpretStatements(statements, i + 1, r.st)} |->
           IF r.sig # "ok" /\ n.sig = "ok"
           THEN R(n.st, r.sig, [at |-> i, error |-> r.val])
           ELSE n])])

\* the for loop of interpret (lines 77-79); a failing statement ends the loop
InterpretStatements(statements, i, st) ==
  IF i > Len(statements) THEN R(st, "ok", Null)
  ELSE Only([r \in {Execute(statements[i], Emit(st, "top", "", i, Null))} |->
         IF r.sig # "ok" THEN R(r.st, r.sig, [at |-> i, error |-> r.val])
         ELSE InterpretStatements(statements, i + 1, r.st)])

\* interpret(statements) on an interpreter whose environment is env:
\* the environment afterwards, the trace, what console.error received, and
\* the exception leaving interpret (Null: none)
Interpret(statements, env) ==
  Only([r \in {InterpretStatements(statements, 1,
                 [env |-> env, log |-> <<>>, frame |-> 0, nframes |-> 0,
                  blk |-> 0, nblks |-> 0, depth |-> 0])} |->
    [env |-> r.st.env, log |-> r.st.log,
     reported |-> IF r.sig = "ok" THEN <<>> ELSE <<r.val>>,
     thrown |-> Null]])

(***************************************************************************)
(* Type equality (src/src/types/types.ts).  `Undefined` is what indexing   *)
(* past the end of other.params yields.                                    *)
(***************************************************************************)
Undefined == [kind |-> "Undefined"]

\* PrimitiveType.equals: its return line is elided in types.ts and restored
\* from the same class in the clean type-system file
RECURSIVE TypeEquals(_, _)
TypeEquals(this, other) ==
  CASE this.kind = "PrimitiveType" ->
         other.kind = "PrimitiveType" /\ other.name = this.name
    [] this.kind = "FunctionType" ->
         /\ other.kind = "FunctionType"
         /\ \A i \in 1..Len(this.params) :
              TypeEquals(this.params[i],
                         IF i <= Len(other.params) THEN other.params[i]
                         ELSE Undefined)
         /\ TypeEquals(this.returnType, other.returnType)
    [] this.kind = "ResultType" ->
         /\ other.kind = "ResultType"
         /\ TypeEquals(this.okType, other.okType)
         /\ TypeEquals(this.errorType, other.errorType)
    [] this.kind = "OptionType" ->
         other.kind = "OptionType" /\ TypeEquals(this.innerType, other.innerType)
    [] OTHER -> FALSE

(***************************************************************************)
(* Type checker (src/unnamed/part_011).  Its fields travel in a record ck: *)
(*   scope    this.scope                                                   *)
(*   scopes   this.scopes                                                  *)
(*   log      observation trace: "lookup" of an identifier, "body" and     *)
(*            "bodyend" around a function body, "declare" at the outcome   *)
(*            of a variable declaration whose initializer was typed,       *)
(*            "binary" at the outcome of a binary expression whose         *)
(*            operands were typed, "call" at the outcome of a function     *)
(*            call whose callee and checked arguments were typed, "enter"  *)
(*            after pushScope and "exit" after popScope, "statement" when  *)
(*            a loop over a statement list hands a statement to            *)
(*            checkStatement                                               *)
(* The "binary" and "declare" events carry in equals the applications of   *)
(* Type.equals that the rule made: receiver, argument and result.          *)
(* A result carries the node as mutated so far, also when sig is "err".    *)
(***************************************************************************)
C(ck, sig, node, val) == [ck |-> ck, sig |-> sig, node |-> node, val |-> val]

\* assignability that holds between any two types
isAssignable_Any(from, to) == TRUE

isAssignable(from, to) == TypeEquals(from, to)

RECURSIVE LookupParent(_, _, _)
LookupParent(scopes, i, name) ==
  IF i < 1 THEN Null
  ELSE IF MapHas(scopes[i], name) THEN scopes[i][name]
  ELSE LookupParent(scopes, i - 1, name)

checkerLookupVariable(ck, name) ==
  IF MapHas(ck.scope, name) THEN ck.scope[name]
  ELSE LookupParent(ck.scopes, Len(ck.scopes), name)

pushScope(ck) == [ck EXCEPT !.scopes = Append(@, ck.scope)]

\* a pop that drops the saved copy and keeps the block's scope
popScope_Keep(ck) ==
  IF Len(ck.scopes) > 0
  THEN [ck EXCEPT !.scopes = SubSeq(@, 1, Len(@) - 1)]
  ELSE ck

popScope(ck) ==
  IF Len(ck.scopes) > 0
  THEN [ck EXCEPT !.scope = ck.scopes[Len(ck.scopes)],
                  !.scopes = SubSeq(@, 1, Len(@) - 1)]
  ELSE ck

CkEmit(ck, ev, name, val) ==
  [ck EXCEPT !.log = Append(@, [ev |-> ev, name |-> name, val |-> val,
                                scope |-> ck.scope, scopes |-> ck.scopes,
                                depth |-> Len(ck.scopes)])]

\* pushScope() and popScope(), each followed by its log entry
EnterScope(ck, name) == CkEmit(pushScope(ck), "enter", name, Null)

ExitScope(ck, name) == CkEmit(popScope(ck), "exit", name, Null)

IsNumberType(t) == TypeEquals(t, PrimitiveType("number"))

\* one application this.equals(other), as the log records it
EqualsOf(this, other) ==
  [this |-> this, other |-> other, result |-> TypeEquals(this, other)]

\* the applications of equals made by the test of line 134, in order: the
\* second isAssignable is called only when the first is false
EqualityTests(leftType, rightType) ==
  IF isAssignable(leftType, rightType) THEN <<EqualsOf(leftType, rightType)>>
  ELSE <<EqualsOf(leftType, rightType), EqualsOf(rightType, leftType)>>

\* the applications of equals made by the tests of lines 124-125 and of the
\* comparison case: the right operand is tested only when the left is number
NumberTests(leftType, rightType) ==
  IF IsNumberType(leftType)
  THEN <<EqualsOf(leftType, PrimitiveType("number")),
         EqualsOf(rightType, PrimitiveType("number"))>>
  ELSE <<EqualsOf(leftType, PrimitiveType("number"))>>

RECURSIVE checkExpression(_, _)
RECURSIVE checkBinaryExpression(_, _)
RECURSIVE checkFunctionCall(_, _)
RECURSIVE checkArgs(_, _, _, _)
RECURSIVE checkStatement(_, _)
RECURSIVE checkStatements(_, _, _)

checkExpression(expr, ck) ==
  CASE expr.kind = "NumberLiteral" ->
         C(ck, "ok", [expr EXCEPT !.type = PrimitiveType("number")], Null)
    [] expr.kind = "StringLiteral" ->
         C(ck, "ok", [expr EXCEPT !.type = PrimitiveType("string")], Null)
    [] expr.kind = "BooleanLiteral" ->
         C(ck, "ok", [expr EXCEPT !.type = PrimitiveType("boolean")], Null)
    [] expr.kind = "Identifier" ->
         Only([type \in {checkerLookupVariable(ck, expr.name)} |->
           LET k == CkEmit(ck, "lookup", expr.name, type)
           IN  IF IsNull(type)
               THEN C(k, "err", expr, "Undefined variable: " \o expr.name)
               ELSE C(k, "ok", [expr EXCEPT !.type = type], Null)])
    [] expr.kind = "BinaryExpression" -> checkBinaryExpression(expr, ck)
    [] expr.kind = "FunctionCall" -> checkFunctionCall(expr, ck)
    [] OTHER -> C(ck, "ok", expr, Null)

checkBinaryExpression(expr, ck) ==
  Only([l \in {checkExpression(expr.left, ck)} |->
    IF l.sig # "ok" THEN C(l.ck, "err", [expr EXCEPT !.left = l.node], l.val)
    ELSE
    Only([r \in {checkExpression(expr.right, l.ck)} |->
      LET e2 == [expr EXCEPT !.left = l.node, !.right = r.node]
          leftType == l.node.type
          rightType == r.node.type
          op == expr.operator
      IN  IF r.sig # "ok" THEN C(r.ck, "err", e2, r.val)
          ELSE Only([out \in {
            IF op \in {PLUS, MINUS, MULTIPLY, DIVIDE}
            THEN IF IsNumberType(leftType) /\ IsNumberType(rightType)
                 THEN C(r.ck, "ok", [e2 EXCEPT !.type = PrimitiveType("number")], Null)
                 ELSE C(r.ck, "err", e2, "Arithmetic operation requires numbers")
            ELSE IF op \in {EQUAL, NOT_EQUAL}
            THEN IF isAssignable(leftType, rightType) \/ isAssignable(rightType, leftType)
                 THEN C(r.ck, "ok", [e2 EXCEPT !.type = PrimitiveType("boolean")], Null)
                 ELSE C(r.ck, "err", e2, "Cannot compare")
            ELSE IF op \in {LESS, GREATER}
            THEN IF IsNumberType(leftType) /\ IsNumberType(rightType)
                 THEN C(r.ck, "ok", [e2 EXCEPT !.type = PrimitiveType("boolean")], Null)
                 ELSE C(r.ck, "err", e2, "Comparison requires numbers")
            ELSE C(r.ck, "ok", e2, Null)} |->
            C(CkEmit(out.ck, "binary", op,
                     [left |-> leftType, right |-> rightType, sig |-> out.sig,
                      type |-> out.node.type, error |-> out.val,
                      equals |-> IF op \in {EQUAL, NOT_EQUAL}
                                 THEN EqualityTests(leftType, rightType)
                                 ELSE IF op \in {PLUS, MINUS, MULTIPLY, DIVIDE,
                                                 LESS, GREATER}
                                 THEN NumberTests(leftType, rightType)
                                 ELSE <<>>]),
              out.sig, out.node, out.val)])])])

\* the outcome of a call whose callee was typed, as the log records it:
\* args are the types of the arguments checked so far
CallOutcome(expr, checked, sig, error, type) ==
  [callee |-> expr.callee.type, count |-> Len(expr.args),
   args |-> [j \in 1..checked |-> expr.args[j].type],
   sig |-> sig, error |-> error, type |-> type]

\* the loop of checkFunctionCall over expr.args (lines 166-173)
checkArgs(expr, funcType, i, ck) ==
  IF i > Len(expr.args) THEN C(ck, "ok", expr, Null)
  ELSE Only([a \in {checkExpression(expr.args[i], ck)} |->
         Only([e \in {[expr EXCEPT !.args[i] = a.node]} |->
           IF a.sig # "ok" THEN C(a.ck, "err", e, a.val)
           ELSE IF ~isAssignable(a.node.type, funcType.params[i])
                THEN Only([error \in {[message |-> "Argument", index |-> i]} |->
                       C(CkEmit(a.ck, "call", "",
                                CallOutcome(e, i, "err", error, Null)),
                         "err", e, error)])
           ELSE checkArgs(e, funcType, i + 1, a.ck)])])

\* an arity test that lets a call pass fewer arguments than parameters
ArityMatches_AtMost(args, funcType) == Len(args) <= Len(funcType.params)

\* line 161: expr.args.length !== funcType.params.length, negated
ArityMatches(args, funcType) == Len(args) = Len(funcType.params)

checkFunctionCall(expr, ck) ==
  Only([c \in {checkExpression(expr.callee, ck)} |->
    Only([e1 \in {[expr EXCEPT !.callee = c.node]} |->
      IF c.sig # "ok" THEN C(c.ck, "err", e1, c.val)
      ELSE IF c.node.type.kind # "FunctionType"
           THEN C(CkEmit(c.ck, "call", "",
                         CallOutcome(e1, 0, "err", "Cannot call non-function type",
                                     Null)),
                  "err", e1, "Cannot call non-function type")
      ELSE IF ~ArityMatches(expr.args, c.node.type)
           THEN C(CkEmit(c.ck, "call", "",
                         CallOutcome(e1, 0, "err",
                                     "Function expects n arguments, got m", Null)),
                  "err", e1, "Function expects n arguments, got m")
      ELSE Only([a \in {checkArgs(e1, c.node.type, 1, c.ck)} |->
             IF a.sig # "ok" THEN a
             ELSE C(CkEmit(a.ck, "call", "",
                           CallOutcome(a.node, Len(a.node.args), "ok", Null,
                                       c.node.type.returnType)),
                    "ok", [a.node EXCEPT !.type = c.node.type.returnType],
                    Null)])])])

checkVariableDeclaration(stmt, ck) ==
  Only([i \in {IF IsNull(stmt.initializer) THEN C(ck, "ok", Null, Null)
               ELSE checkExpression(stmt.initializer, ck)} |->
    Only([s1 \in {[stmt EXCEPT !.initializer = i.node]} |->
      IF i.sig # "ok" THEN C(i.ck, "err", s1, i.val)
      ELSE Only([out \in {
        IF ~IsNull(stmt.initializer) /\ ~IsNull(stmt.typeAnnotation)
           /\ ~isAssignable(i.node.type, stmt.typeAnnotation)
        THEN C(i.ck, "err", s1, "Type mismatch")
        ELSE Only([s2 \in {IF ~IsNull(stmt.initializer) /\ IsNull(stmt.typeAnnotation)
                           THEN [s1 EXCEPT !.typeAnnotation = i.node.type]
                           ELSE s1} |->
               IF IsNull(s2.typeAnnotation)
               THEN C(i.ck, "err", s2, "Cannot infer type for variable")
               ELSE C([i.ck EXCEPT !.scope = MapSet(@, stmt.name, s2.typeAnnotation)],
                      "ok", s2, Null)])} |->
        C(CkEmit(out.ck, "declare", stmt.name,
                 [annotation |-> stmt.typeAnnotation,
                  initializer |-> IF IsNull(stmt.initializer) THEN Null
                                  ELSE i.node.type,
                  sig |-> out.sig, error |-> out.val, before |-> i.ck.scope,
                  equals |-> IF ~IsNull(stmt.initializer) /\ ~IsNull(stmt.typeAnnotation)
                             THEN <<EqualsOf(i.node.type, stmt.typeAnnotation)>>
                             ELSE <<>>]),
          out.sig, out.node, out.val)])])])

ParamTypes(params) == [i \in 1..Len(params) |-> params[i].type]

RECURSIVE BindParamTypes(_, _, _)
BindParamTypes(scope, params, i) ==
  IF i > Len(params) THEN scope
  ELSE BindParamTypes(MapSet(scope, params[i].name, params[i].type), params, i + 1)

\* line 54: the function's own type is put in scope before the body is checked
RegisterFunction(scope, name, funcType) == MapSet(scope, name, funcType)

checkFunctionDeclaration(stmt, ck) ==
  Only([funcType \in {FunctionType(ParamTypes(stmt.params), stmt.returnType)} |->
    Only([k2 \in {EnterScope([ck EXCEPT !.scope =
                                RegisterFunction(@, stmt.name, funcType)],
                             stmt.name)} |->
      Only([b \in {checkStatements(stmt.body, 1,
                     CkEmit([k2 EXCEPT !.scope = BindParamTypes(@, stmt.params, 1)],
                            "body", stmt.name,
                            [type |-> funcType, declaration |-> stmt]))} |->
        LET s1 == [stmt EXCEPT !.body = b.node]
        IN  IF b.sig # "ok" THEN C(b.ck, "err", s1, b.val)
            ELSE C(ExitScope(CkEmit(b.ck, "bodyend", stmt.name, Null), stmt.name),
                   "ok", s1, Null)])])])

checkIfStatement(stmt, ck) ==
  Only([c \in {checkExpression(stmt.condition, ck)} |->
    Only([s1 \in {[stmt EXCEPT !.condition = c.node]} |->
      IF c.sig # "ok" THEN C(c.ck, "err", s1, c.val)
      ELSE IF ~TypeEquals(c.node.type, PrimitiveType("boolean"))
           THEN C(c.ck, "err", s1, "If condition must be boolean")
      ELSE
      Only([t \in {checkStatements(stmt.thenBranch, 1,
                                    EnterScope(c.ck, "then"))} |->
        Only([s2 \in {[s1 EXCEPT !.thenBranch = t.node]} |->
          IF t.sig # "ok" THEN C(t.ck, "err", s2, t.val)
          ELSE IF IsNull(stmt.elseBranch)
               THEN C(ExitScope(t.ck, "then"), "ok", s2, Null)
          ELSE Only([e \in {checkStatements(stmt.elseBranch.statements, 1,
                                            EnterScope(ExitScope(t.ck, "then"),
                                                       "else"))} |->
                 LET s3 == [s2 EXCEPT !.elseBranch = Block(e.node)]
                 IN  IF e.sig # "ok" THEN C(e.ck, "err", s3, e.val)
                     ELSE C(ExitScope(e.ck, "else"), "ok", s3, Null)])])])])])

checkStatement(stmt, ck) ==
  CASE stmt.kind = "VariableDeclaration" -> checkVariableDeclaration(stmt, ck)
    [] stmt.kind = "FunctionDeclaration" -> checkFunctionDeclaration(stmt, ck)
    [] stmt.kind = "IfStatement" -> checkIfStatement(stmt, ck)
    [] stmt.kind = "ExpressionStatement" ->
         Only([e \in {checkExpression(stmt.expression, ck)} |->
           C(e.ck, e.sig, [stmt EXCEPT !.expression = e.node], e.val)])
    [] OTHER -> C(ck, "ok", stmt, Null)

\* for (const stmt of statements) this.checkStatement(stmt)
checkStatements(statements, i, ck) ==
  IF i > Len(statements) THEN C(ck, "ok", statements, Null)
  ELSE Only([r \in {checkStatement(statements[i],
                                   CkEmit(ck, "statement", statements[i].kind, i))} |->
         Only([ss \in {[statements EXCEPT ![i] = r.node]} |->
           IF r.sig # "ok" THEN C(r.ck, "err", ss, r.val)
           ELSE checkStatements(ss, i + 1, r.ck)])])

\* typeCheck(statements) on a checker with fields scope, scopes: the fields
\* and the tree afterwards, and the exception leaving typeCheck (Null: none)
typeCheck(statements, scope, scopes) ==
  Only([r \in {checkStatements(statements, 1,
                 [scope |-> scope, scopes |-> scopes, log |-> <<>>])} |->
    [scope |-> r.ck.scope, scopes |-> r.ck.scopes, log |-> r.ck.log,
     ast |-> r.node, thrown |-> IF r.sig = "ok" THEN Null ELSE [error |-> r.val]]])

(***************************************************************************)
(* Lexer (src/src/lexer/lexer.ts, 64-269).  The source text is a string;   *)
(* position is the 0-based offset of the next character.  The lexer's      *)
(* fields travel in a record lx = [position, line, column]; its field      *)
(* trace is the observation trace of the scanning loop.                    *)
(***************************************************************************)
charAt(source, position) == SubSeq(source, position + 1, position + 1)

substring(source, start, end) == SubSeq(source, start + 1, end)

Digits == "0123456789"

Letters == "abcdefghijklmnopqrstuvwxyzABCDEFGHIJKLMNOPQRSTUVWXYZ_"

IsIn(c, chars) == \E i \in 1..Len(chars) : SubSeq(chars, i, i) = c

\* /\d/
IsDigit(c) == IsIn(c, Digits)

\* /[a-zA-Z_]/
IsLetter(c) == IsIn(c, Letters)

L(lx, sig, token, val) == [lx |-> lx, sig |-> sig, token |-> token, val |-> val]

makeToken(lx, type, value) ==
  [type |-> type, value |-> value, line |-> lx.line,
   column |-> lx.column - Len(value)]

Keywords == {"let", "const", "fn", "if", "else", "match", "type", "enum",
             "struct", "impl", "async", "await"}

\* property names every object literal inherits from Object.prototype
InheritedProperties ==
  {"constructor", "toString", "valueOf", "hasOwnProperty", "isPrototypeOf",
   "propertyIsEnumerable", "toLocaleString", "__proto__",
   "__defineGetter__", "__defineSetter__", "__lookupGetter__",
   "__lookupSetter__"}

\* keywords[value] || null; a keyword's TokenType is its own spelling, and an
\* inherited property is a truthy non-TokenType object
getKeywordTokenType(value) ==
  IF value \in Keywords THEN value
  ELSE IF value \in {"true", "false"} THEN "BOOLEAN"
  ELSE IF value \in InheritedProperties THEN "[object " \o value \o "]"
  ELSE ""

SingleChars == "=+-*/<>(){}[],;:.|"

\* singleChars[char] || null; "" stands for null
getSingleCharTokenType(char) == IF IsIn(char, SingleChars) THEN char ELSE ""

\* a table of two-character operators without the arrow
getTwoCharTokenType_NoArrow(chars) ==
  IF chars \in {EQUAL, NOT_EQUAL, FAT_ARROW} THEN chars ELSE ""

\* twoChars[chars] || null; "" stands for null
getTwoCharTokenType(chars) ==
  IF chars \in {EQUAL, NOT_EQUAL, ARROW, FAT_ARROW} THEN chars ELSE ""

\* the conditions of skipWhitespace are elided in lexer.ts and restored from
\* the same method of the clean lexer file
RECURSIVE skipWhitespace(_, _)
skipWhitespace(source, lx) ==
  IF lx.position < Len(source)
  THEN LET char == charAt(source, lx.position)
       IN  IF char \in {" ", "\t", "\r"}
           THEN skipWhitespace(source, [lx EXCEPT !.position = @ + 1, !.column = @ + 1])
           ELSE IF char = "\n"
           THEN skipWhitespace(source, [lx EXCEPT !.position = @ + 1,
                                                  !.line = @ + 1, !.column = 1])
           ELSE lx
  ELSE lx

RECURSIVE ScanWhile(_, _, _)
ScanWhile(source, lx, chars) ==
  IF lx.position < Len(source) /\ IsIn(charAt(source, lx.position), chars)
  THEN ScanWhile(source, [lx EXCEPT !.position = @ + 1, !.column = @ + 1], chars)
  ELSE lx

readNumber(source, lx) ==
  Only([e \in {ScanWhile(source, lx, Digits \o ".")} |->
    L(e, "ok", makeToken(e, "NUMBER", substring(source, lx.position, e.position)), Null)])

readIdentifier(source, lx) ==
  Only([e \in {ScanWhile(source, lx, Letters \o Digits)} |->
    LET value == substring(source, lx.position, e.position)
        keyword == getKeywordTokenType(value)
    IN  L(e, "ok", makeToken(e, IF keyword # "" THEN keyword ELSE "IDENTIFIER", value),
          Null)])

\* the while loop of readString (lines 156-163); its newline test is elided
\* in lexer.ts and restored from the clean lexer file
RECURSIVE ScanString(_, _)
ScanString(source, lx) ==
  IF lx.position < Len(source) /\ charAt(source, lx.position) # "\""
  THEN IF charAt(source, lx.position) = "\n"
       THEN ScanString(source, [lx EXCEPT !.position = @ + 1, !.line = @ + 1, !.column = 1])
       ELSE ScanString(source, [lx EXCEPT !.position = @ + 1, !.column = @ + 1])
  ELSE lx

\* a scan that takes the rest of the input as the text of an open string
readString_Lenient(source, lx) ==
  Only([b \in {ScanString(source, [lx EXCEPT !.position = @ + 1, !.column = @ + 1])} |->
    L([b EXCEPT !.position = @ + 1, !.column = @ + 1], "ok",
      makeToken(b, "STRING", substring(source, lx.position + 1, b.position)), Null)])

readString(source, lx) ==
  Only([b \in {ScanString(source, [lx EXCEPT !.position = @ + 1, !.column = @ + 1])} |->
    IF b.position >= Len(source)
    THEN L(b, "err", Null, [message |-> "Unterminated string", line |-> b.line])
    ELSE LET start == lx.position
             e == [b EXCEPT !.position = @ + 1, !.column = @ + 1]
         IN  L(e, "ok", makeToken(e, "STRING",
                                  substring(source, start + 1, e.position - 1)), Null)])

\* an operator scan that moves the column and leaves the position
Consume_ColumnOnly(lx, n) == [lx EXCEPT !.column = @ + n]

\* lines 122-123 and 131-132: this.position += n; this.column += n
Consume(lx, n) == [lx EXCEPT !.position = @ + n, !.column = @ + n]

\* a scan that passes over a character that starts no token
Unexpected_Skip(lx, char) == L(Consume(lx, 1), "ok", makeToken(lx, "NEWLINE", char), Null)

\* line 136: throw new Error(`Unexpected character: ... at line, column`)
Unexpected(lx, char) ==
  L(lx, "err", Null, [message |-> "Unexpected character", char |-> char,
                      line |-> lx.line, column |-> lx.column])

nextToken(source, lx0) ==
  Only([lx \in {skipWhitespace(source, lx0)} |->
    LET char == charAt(source, lx.position)
        twoChar == substring(source, lx.position, lx.position + 2)
    IN  IF lx.position >= Len(source) THEN L(lx, "ok", makeToken(lx, "EOF", ""), Null)
        ELSE IF IsDigit(char) THEN readNumber(source, lx)
        ELSE IF char = "\"" THEN readString(source, lx)
        ELSE IF IsLetter(char) THEN readIdentifier(source, lx)
        ELSE IF lx.position + 1 < Len(source) /\ getTwoCharTokenType(twoChar) # ""
             THEN LET e == Consume(lx, 2)
                  IN  L(e, "ok", makeToken(e, getTwoCharTokenType(twoChar), twoChar), Null)
        ELSE IF getSingleCharTokenType(char) # ""
             THEN LET e == Consume(lx, 1)
                  IN  L(e, "ok", makeToken(e, getSingleCharTokenType(char), char), Null)
        ELSE Unexpected(lx, char)])

\* the while loop of tokenize (lines 77-82); lx.tokens is this.tokens and
\* lx.trace holds the position at the start of every iteration so far.  An
\* iteration that begins after more iterations than the source has characters
\* ends the scan with "loop".
RECURSIVE TokenizeLoop(_, _)
TokenizeLoop(source, lx) ==
  IF lx.position < Len(source) /\ Len(lx.trace) <= Len(source)
  THEN Only([t \in {nextToken(source, [lx EXCEPT !.trace = Append(@, lx.position)])} |->
         IF t.sig # "ok" THEN t
         ELSE TokenizeLoop(source,
                IF t.token.type # "NEWLINE"
                THEN [t.lx EXCEPT !.tokens = Append(@, t.token)]
                ELSE t.lx)])
  ELSE L(lx, IF lx.position < Len(source) THEN "loop" ELSE "ok", Null, Null)

\* new Lexer(source).tokenize(): the token list, or the exception thrown;
\* trace and final are the loop's positions, halted tells that the loop ended
tokenize(source) ==
  Only([r \in {TokenizeLoop(source, [position |-> 0, line |-> 1, column |-> 1,
                                      tokens |-> <<>>, trace |-> <<>>])} |->
    [tokens |-> IF r.sig # "ok" THEN <<>>
                ELSE Append(r.lx.tokens, [type |-> "EOF", value |-> "",
                                          line |-> r.lx.line, column |-> r.lx.column]),
     thrown |-> r.val, trace |-> r.lx.trace, final |-> r.lx.position,
     halted |-> r.sig # "loop"]])

(***************************************************************************)
(* Parser (src/src/parser/parser.ts, 1-326).  The parser's cursor travels  *)
(* in a record ps: current (0-based index of the lookahead token),         *)
(* caught, the exceptions swallowed by statement() so far, and calls, the  *)
(* cursor at entry and at exit of every completed call of statement().     *)
(***************************************************************************)
P(ps, sig, node, val) == [ps |-> ps, sig |-> sig, node |-> node, val |-> val]

peek(tokens, ps) == tokens[ps.current + 1]

previous(tokens, ps) == tokens[ps.current]

\* body elided in parser.ts; restored: the lookahead is the EOF token
isAtEnd(tokens, ps) == peek(tokens, ps).type = "EOF"

\* second line elided in parser.ts; restored: the lookahead has this type
check(tokens, ps, type) ==
  IF isAtEnd(tokens, ps) THEN FALSE ELSE peek(tokens, ps).type = type

advance(tokens, ps) ==
  IF ~isAtEnd(tokens, ps) THEN [ps EXCEPT !.current = @ + 1] ELSE ps

\* match(...types): TRUE iff the lookahead has one of the types, in which
\* case the caller's cursor becomes advance(tokens, ps)
match(tokens, ps, types) == \E type \in types : check(tokens, ps, type)

consume(tokens, ps, type, message) ==
  IF check(tokens, ps, type)
  THEN P(advance(tokens, ps), "ok", peek(tokens, ps), Null)
  ELSE P(ps, "err", Null, [message |-> message, token |-> peek(tokens, ps)])

\* the while loop of synchronize (lines 313-324); the test for a preceding
\* semicolon is elided in parser.ts and restored
RECURSIVE SynchronizeLoop(_, _)
SynchronizeLoop(tokens, ps) ==
  IF isAtEnd(tokens, ps) THEN ps
  ELSE IF previous(tokens, ps).type = ";" THEN ps
  ELSE IF peek(tokens, ps).type \in {"fn", "let", "const", "if"} THEN ps
  ELSE SynchronizeLoop(tokens, advance(tokens, ps))

\* a synchronize that discards nothing
synchronize_Stay(tokens, ps) == ps

synchronize(tokens, ps) == SynchronizeLoop(tokens, advance(tokens, ps))

\* parseFloat of a NUMBER token's text (digits and dots, first a digit):
\* the digits, then at most one dot followed by digits
DigitValue(c) == CHOOSE d \in 0..9 : SubSeq(Digits, d + 1, d + 1) = c

RECURSIVE ParseDigits(_, _, _)
ParseDigits(text, i, acc) ==
  IF i <= Len(text) /\ IsDigit(SubSeq(text, i, i))
  THEN ParseDigits(text, i + 1,
                   [num |-> acc.num * 10 + DigitValue(SubSeq(text, i, i)),
                    den |-> acc.den * acc.scale, scale |-> acc.scale, next |-> i + 1])
  ELSE acc

parseFloat(text) ==
  Only([whole \in {ParseDigits(text, 1,
                                [num |-> 0, den |-> 1, scale |-> 1, next |-> 1])} |->
    IF whole.next <= Len(text) /\ SubSeq(text, whole.next, whole.next) = "."
    THEN Only([all \in {ParseDigits(text, whole.next + 1,
                                    [whole EXCEPT !.scale = 10,
                                                  !.next = whole.next + 1])} |->
           Rational(all.num, all.den)])
    ELSE Rational(whole.num, 1)])

RECURSIVE statement(_, _)
RECURSIVE StatementList(_, _, _)
RECURSIVE expression(_, _)
RECURSIVE Binary(_, _, _)
RECURSIVE BinaryLoop(_, _, _, _)
RECURSIVE call(_, _)
RECURSIVE CallLoop(_, _, _)
RECURSIVE finishCall(_, _, _)
RECURSIVE ArgumentList(_, _, _)
RECURSIVE primary(_, _)
RECURSIVE parseType(_, _)
RECURSIVE InnerTypes(_, _, _)

\* do { innerTypes.push(this.parseType()) } while (this.match(COMMA))
InnerTypes(tokens, ps, innerTypes) ==
  Only([t \in {parseType(tokens, ps)} |->
    IF t.sig # "ok" THEN t
    ELSE IF match(tokens, t.ps, {","})
         THEN InnerTypes(tokens, advance(tokens, t.ps), Append(innerTypes, t.node))
    ELSE P(t.ps, "ok", Append(innerTypes, t.node), Null)])

\* the two tests selecting OptionType and ResultType are elided in parser.ts;
\* restored: the base name and the number of inner types
parseType(tokens, ps) ==
  IF match(tokens, ps, {"IDENTIFIER"})
  THEN LET p1 == advance(tokens, ps)
           typeName == previous(tokens, p1).value
       IN  IF match(tokens, p1, {LESS})
           THEN Only([i \in {InnerTypes(tokens, advance(tokens, p1), <<>>)} |->
                  IF i.sig # "ok" THEN i
                  ELSE Only([g \in {consume(tokens, i.ps, GREATER,
                                            "Expected '>' after generic parameters")} |->
                         IF g.sig # "ok" THEN g
                         ELSE IF typeName = "Option" /\ Len(i.node) = 1
                              THEN P(g.ps, "ok", OptionType(i.node[1]), Null)
                         ELSE IF typeName = "Result" /\ Len(i.node) = 2
                              THEN P(g.ps, "ok", ResultType(i.node[1], i.node[2]), Null)
                         ELSE P(g.ps, "ok", PrimitiveType(typeName), Null)])])
           ELSE P(p1, "ok", PrimitiveType(typeName), Null)
  ELSE P(ps, "err", Null, [message |-> "Expected type", token |-> peek(tokens, ps)])

\* the BooleanLiteral line of primary is elided in parser.ts; restored
primary(tokens, ps) ==
  LET p1 == advance(tokens, ps)
      value == previous(tokens, p1).value
  IN  IF match(tokens, ps, {"BOOLEAN"})
      THEN P(p1, "ok", BooleanLiteral(value = "true"), Null)
      ELSE IF match(tokens, ps, {"NUMBER"})
      THEN Only([n \in {parseFloat(value)} |->
             P(p1, "ok", [NumberLiteral(0) EXCEPT !.num = n.num, !.den = n.den], Null)])
      ELSE IF match(tokens, ps, {"STRING"}) THEN P(p1, "ok", StringLiteral(value), Null)
      ELSE IF match(tokens, ps, {"IDENTIFIER"}) THEN P(p1, "ok", Identifier(value), Null)
      ELSE IF match(tokens, ps, {"("})
      THEN Only([e \in {expression(tokens, p1)} |->
             IF e.sig # "ok" THEN e
             ELSE Only([c \in {consume(tokens, e.ps, ")",
                                       "Expected ')' after expression")} |->
                    IF c.sig # "ok" THEN c ELSE P(c.ps, "ok", e.node, Null)])])
      ELSE P(ps, "err", Null, [message |-> "Unexpected token", token |-> peek(tokens, ps)])

\* do { args.push(this.expression()) } while (this.match(COMMA))
ArgumentList(tokens, ps, args) ==
  Only([e \in {expression(tokens, ps)} |->
    IF e.sig # "ok" THEN e
    ELSE IF match(tokens, e.ps, {","})
         THEN ArgumentList(tokens, advance(tokens, e.ps), Append(args, e.node))
    ELSE P(e.ps, "ok", Append(args, e.node), Null)])

finishCall(tokens, ps, callee) ==
  Only([a \in {IF ~check(tokens, ps, ")") THEN ArgumentList(tokens, ps, <<>>)
               ELSE P(ps, "ok", <<>>, Null)} |->
    IF a.sig # "ok" THEN a
    ELSE Only([c \in {consume(tokens, a.ps, ")", "Expected ')' after arguments")} |->
           IF c.sig # "ok" THEN c
           ELSE P(c.ps, "ok", FunctionCall(callee, a.node), Null)])])

\* while (true) { if (this.match(LPAREN)) expr = this.finishCall(expr) else break }
CallLoop(tokens, ps, expr) ==
  IF match(tokens, ps, {"("})
  THEN Only([f \in {finishCall(tokens, advance(tokens, ps), expr)} |->
         IF f.sig # "ok" THEN f ELSE CallLoop(tokens, f.ps, f.node)])
  ELSE P(ps, "ok", expr, Null)

call(tokens, ps) ==
  Only([e \in {primary(tokens, ps)} |->
    IF e.sig # "ok" THEN e ELSE CallLoop(tokens, e.ps, e.node)])

\* the operators matched at each binary level, loosest first:
\* levels in which + and - bind tighter than * and /
LevelOperators_Swapped ==
  <<{EQUAL, NOT_EQUAL}, {GREATER, LESS}, {DIVIDE, MULTIPLY}, {MINUS, PLUS}>>

\* equality, comparison, term, factor (lines 150, 162, 174, 186)
LevelOperators ==
  <<{EQUAL, NOT_EQUAL}, {GREATER, LESS}, {MINUS, PLUS}, {DIVIDE, MULTIPLY}>>

\* while (this.match(ops)) { operator; right = next level; expr = Binary }
BinaryLoop(tokens, ps, expr, level) ==
  IF match(tokens, ps, LevelOperators[level])
  THEN LET p1 == advance(tokens, ps)
           operator == previous(tokens, p1).type
       IN  Only([right \in {Binary(tokens, p1, level + 1)} |->
             IF right.sig # "ok" THEN right
             ELSE BinaryLoop(tokens, right.ps,
                             BinaryExpression(expr, operator, right.node), level)])
  ELSE P(ps, "ok", expr, Null)

\* one binary level: its left operand is parsed by the next tighter level
Binary(tokens, ps, level) ==
  IF level > Len(LevelOperators) THEN call(tokens, ps)
  ELSE Only([left \in {Binary(tokens, ps, level + 1)} |->
         IF left.sig # "ok" THEN left
         ELSE BinaryLoop(tokens, left.ps, left.node, level)])

factor(tokens, ps) == Binary(tokens, ps, 4)

term(tokens, ps) == Binary(tokens, ps, 3)

comparison(tokens, ps) == Binary(tokens, ps, 2)

equality(tokens, ps) == Binary(tokens, ps, 1)

expression(tokens, ps) == equality(tokens, ps)

expressionStatement(tokens, ps) ==
  Only([e \in {expression(tokens, ps)} |->
    IF e.sig # "ok" THEN e
    ELSE Only([c \in {consume(tokens, e.ps, ";", "Expected ';' after expression")} |->
           IF c.sig # "ok" THEN c
           ELSE P(c.ps, "ok", ExpressionStatement(e.node), Null)])])

\* the isConst line is elided in parser.ts; restored: the keyword just
\* matched is const
variableDeclaration(tokens, ps) ==
  LET isConst == previous(tokens, ps).type = "const"
  IN
  Only([n \in {consume(tokens, ps, "IDENTIFIER", "Expected variable name")} |->
    IF n.sig # "ok" THEN n
    ELSE
    Only([t \in {IF match(tokens, n.ps, {":"})
                 THEN parseType(tokens, advance(tokens, n.ps))
                 ELSE P(n.ps, "ok", Null, Null)} |->
      IF t.sig # "ok" THEN t
      ELSE
      Only([i \in {IF match(tokens, t.ps, {ASSIGN})
                   THEN expression(tokens, advance(tokens, t.ps))
                   ELSE P(t.ps, "ok", Null, Null)} |->
        IF i.sig # "ok" THEN i
        ELSE Only([c \in {consume(tokens, i.ps, ";",
                                  "Expected ';' after variable declaration")} |->
               IF c.sig # "ok" THEN c
               ELSE P(c.ps, "ok",
                      VariableDeclaration(n.node.value, t.node, i.node, isConst),
                      Null)])])])])

\* while (!this.check(RBRACE) && !this.isAtEnd()) { stmt = this.statement();
\*   if (stmt) list.push(stmt) }: the bodies of functions and if-branches
StatementList(tokens, ps, list) ==
  IF ~check(tokens, ps, "}") /\ ~isAtEnd(tokens, ps) /\ Len(ps.calls) <= Len(tokens)
  THEN Only([s \in {statement(tokens, ps)} |->
         StatementList(tokens, s.ps,
                       IF IsNull(s.node) THEN list ELSE Append(list, s.node))])
  ELSE P(ps, "ok", list, Null)

\* do { name ':' type } while (this.match(COMMA))
RECURSIVE ParameterList(_, _, _)
ParameterList(tokens, ps, params) ==
  Only([n \in {consume(tokens, ps, "IDENTIFIER", "Expected parameter name")} |->
    IF n.sig # "ok" THEN n
    ELSE Only([c \in {consume(tokens, n.ps, ":",
                              "Expected ':' after parameter name")} |->
           IF c.sig # "ok" THEN c
           ELSE Only([t \in {parseType(tokens, c.ps)} |->
                  LET ps2 == Append(params, Param(n.node.value, t.node))
                  IN  IF t.sig # "ok" THEN t
                      ELSE IF match(tokens, t.ps, {","})
                           THEN ParameterList(tokens, advance(tokens, t.ps), ps2)
                      ELSE P(t.ps, "ok", ps2, Null)])])])

\* a sequence of consume calls, stopping at the first that throws
RECURSIVE ConsumeAll(_, _, _)
ConsumeAll(tokens, ps, types) ==
  IF types = <<>> THEN P(ps, "ok", Null, Null)
  ELSE Only([c \in {consume(tokens, ps, Head(types),
                            "Expected '" \o Head(types) \o "'")} |->
         IF c.sig # "ok" THEN c ELSE ConsumeAll(tokens, c.ps, Tail(types))])

functionDeclaration(tokens, ps) ==
  Only([n \in {consume(tokens, ps, "IDENTIFIER", "Expected function name")} |->
    IF n.sig # "ok" THEN n
    ELSE
    Only([l \in {consume(tokens, n.ps, "(", "Expected '(' after function name")} |->
      IF l.sig # "ok" THEN l
      ELSE
      Only([q \in {IF ~check(tokens, l.ps, ")") THEN ParameterList(tokens, l.ps, <<>>)
                   ELSE P(l.ps, "ok", <<>>, Null)} |->
        IF q.sig # "ok" THEN q
        ELSE
        Only([a \in {ConsumeAll(tokens, q.ps, <<")", ARROW>>)} |->
          IF a.sig # "ok" THEN a
          ELSE
          Only([t \in {parseType(tokens, a.ps)} |->
            IF t.sig # "ok" THEN t
            ELSE
            Only([b \in {consume(tokens, t.ps, "{",
                                 "Expected '{' before function body")} |->
              IF b.sig # "ok" THEN b
              ELSE
              Only([body \in {StatementList(tokens, b.ps, <<>>)} |->
                Only([e \in {consume(tokens, body.ps, "}",
                                     "Expected '}' after function body")} |->
                  IF e.sig # "ok" THEN e
                  ELSE P(e.ps, "ok",
                         FunctionDeclaration(n.node.value, q.node, t.node,
                                             body.node), Null)])])])])])])])])

ifStatement(tokens, ps) ==
  Only([l \in {consume(tokens, ps, "(", "Expected '(' after 'if'")} |->
    IF l.sig # "ok" THEN l
    ELSE
    Only([c \in {expression(tokens, l.ps)} |->
      IF c.sig # "ok" THEN c
      ELSE
      Only([a \in {ConsumeAll(tokens, c.ps, <<")", "{">>)} |->
        IF a.sig # "ok" THEN a
        ELSE
        Only([thenBranch \in {StatementList(tokens, a.ps, <<>>)} |->
          Only([e \in {consume(tokens, thenBranch.ps, "}",
                               "Expected '}' after then branch")} |->
            IF e.sig # "ok" THEN e
            ELSE IF ~match(tokens, e.ps, {"else"})
                 THEN P(e.ps, "ok", IfStatement(c.node, thenBranch.node, Null), Null)
            ELSE
            Only([b \in {consume(tokens, advance(tokens, e.ps), "{",
                                 "Expected '{' after 'else'")} |->
              IF b.sig # "ok" THEN b
              ELSE
              Only([elseBranch \in {StatementList(tokens, b.ps, <<>>)} |->
                Only([f \in {consume(tokens, elseBranch.ps, "}",
                                     "Expected '}' after else branch")} |->
                  IF f.sig # "ok" THEN f
                  ELSE P(f.ps, "ok",
                         IfStatement(c.node, thenBranch.node,
                                     Block(elseBranch.node)), Null)])])])])])])])])

\* try { ... } catch (error) { this.synchronize(); return null }
statement(tokens, ps) ==
  Only([r \in {IF match(tokens, ps, {"let", "const"})
               THEN variableDeclaration(tokens, advance(tokens, ps))
               ELSE IF match(tokens, ps, {"fn"})
               THEN functionDeclaration(tokens, advance(tokens, ps))
               ELSE IF match(tokens, ps, {"if"})
               THEN ifStatement(tokens, advance(tokens, ps))
               ELSE expressionStatement(tokens, ps)} |->
    IF r.sig = "ok"
    THEN [r EXCEPT !.ps.calls = Append(@, [from |-> ps.current, to |-> r.ps.current])]
    ELSE Only([p \in {synchronize(tokens, [r.ps EXCEPT !.caught = Append(@, r.val)])} |->
           P([p EXCEPT !.calls = Append(@, [from |-> ps.current, to |-> p.current])],
             "ok", Null, Null)])])

\* while (!this.isAtEnd()) { stmt = this.statement(); if (stmt) push }; the
\* loops of parse and of the blocks are followed for at most one call of
\* statement per token, and parse reports in halted whether its loop ended
RECURSIVE ParseLoop(_, _, _)
ParseLoop(tokens, ps, statements) ==
  IF ~isAtEnd(tokens, ps) /\ Len(ps.calls) <= Len(tokens)
  THEN Only([s \in {statement(tokens, ps)} |->
         ParseLoop(tokens, s.ps,
                   IF IsNull(s.node) THEN statements ELSE Append(statements, s.node))])
  ELSE P(ps, "ok", statements, Null)

\* new Parser(tokens).parse(): the statement list returned, the exceptions
\* that statement() caught on the way, and the exception leaving parse
parse(tokens) ==
  Only([r \in {ParseLoop(tokens, [current |-> 0, caught |-> <<>>, calls |-> <<>>], <<>>)} |->
    [statements |-> r.node, caught |-> r.ps.caught, thrown |-> Null,
     current |-> r.ps.current, calls |-> r.ps.calls,
     halted |-> isAtEnd(tokens, r.ps)]])

(***************************************************************************)
(* Standard library (src/unnamed/part_008, 3-53)                           *)
(***************************************************************************)
BuiltinArity ==
  [name \in {"print", "input", "Some", "None", "Ok", "Err"} |->
     IF name \in {"input", "None"} THEN 0 ELSE 1]

\* StandardLibrary.getBuiltins()
getBuiltins == [name \in DOMAIN BuiltinArity |-> BuiltinFunction(name, BuiltinArity[name])]

\* the host callable of each built-in, applied to evaluated arguments
BuiltinCallable(name, args) ==
  CASE name = "print" -> NumberValue(0)
    [] name = "input" -> StringValue("simulated input")
    [] name = "Some" -> OptionValue(args[1])
    [] name = "None" -> OptionValue(Null)
    [] name = "Ok" -> ResultValue(TRUE, args[1])
    [] name = "Err" -> ResultValue(FALSE, args[1])

(***************************************************************************)
(* Programs given to the pipeline.                                         *)
(***************************************************************************)
number == PrimitiveType("number")

Num(n) == NumberLiteral(n)

Id(name) == Identifier(name)

CallOf(name, args) == FunctionCall(Identifier(name), args)

Expr(e) == ExpressionStatement(e)

Let(name, e) == VariableDeclaration(name, Null, e, FALSE)

Compact(parts) == SelectSeq(parts, LAMBDA part : ~IsNull(part))

\* bodies of the function f(n: number) -> number
Bodies ==
  { <<>>,
    <<Expr(Id("x"))>>,
    <<ReturnStatement(Id("x"))>>,
    <<ReturnStatement(Null), Expr(Id("y"))>>,
    <<Expr(CallOf("f", <<Id("n")>>))>>,
    <<Expr(BinaryExpression(Id("n"), PLUS, Num(2)))>>,
    <<Let("x", Id("n")), ReturnStatement(Id("x"))>>,
    <<Expr(Id("y"))>>,
    <<Expr(CallOf("print", <<Id("n")>>))>>,
    <<IfStatement(Id("n"), <<ReturnStatement(Num(1)), Expr(Id("y"))>>, Null),
      ReturnStatement(Num(2))>>,
    <<IfStatement(Id("n"), <<Let("x", Num(2)), ReturnStatement(Id("x"))>>,
                  Block(<<Let("n", Num(3))>>)),
      Expr(Id("x"))>>,
    <<IfStatement(BinaryExpression(Id("n"), LESS, Num(1)),
                  <<ReturnStatement(Num(1))>>,
                  Block(<<ReturnStatement(
                            BinaryExpression(Id("n"), MULTIPLY,
                              CallOf("f", <<BinaryExpression(Id("n"), MINUS, Num(1))>>)))>>))>> }

Functions ==
  { FunctionDeclaration("f", <<Param("n", number)>>, number, body) : body \in Bodies }
  \cup { FunctionDeclaration("f", <<Param("n", number)>>, PrimitiveType("string"),
                             <<Expr(StringLiteral("s"))>>) }

Before == { Null, Let("x", Num(0)) }

Between ==
  { Null, Let("x", Num(1)),
    IfStatement(Num(1), <<Let("x", Num(1)), Expr(Id("x"))>>, Null) }

Uses ==
  { Expr(CallOf("f", <<Num(0)>>)),
    Expr(CallOf("f", <<Num(1)>>)),
    Let("x", CallOf("f", <<Num(1)>>)),
    IfStatement(BooleanLiteral(TRUE), <<Let("x", CallOf("f", <<Num(1)>>)), Expr(Id("y"))>>,
                Null),
    Expr(CallOf("print", <<Num(1)>>)),
    Expr(Id("y")) }

After == { Null, Expr(Id("x")), Expr(CallOf("f", <<Num(1)>>)) }

\* the functions that the expressions below name: f and h have the same
\* type, g, k and p each another one
Declarations ==
  << FunctionDeclaration("f", <<Param("n", number)>>, number, <<>>),
     FunctionDeclaration("g", <<Param("s", PrimitiveType("string"))>>, number, <<>>),
     FunctionDeclaration("h", <<Param("n", number)>>, number, <<>>),
     FunctionDeclaration("k", <<>>, number, <<>>),
     FunctionDeclaration("p", <<Param("a", number),
                               Param("b", PrimitiveType("string"))>>,
                         PrimitiveType("boolean"), <<>>),
     FunctionDeclaration("o", <<>>, OptionType(number), <<>>),
     FunctionDeclaration("q", <<>>, OptionType(PrimitiveType("string")), <<>>),
     FunctionDeclaration("r", <<>>, ResultType(number, PrimitiveType("string")), <<>>),
     FunctionDeclaration("w", <<>>, ResultType(number, number), <<>>) >>

\* the identifiers that occur in an expression (Null: none)
RECURSIVE Names(_)
Names(expr) ==
  CASE expr.kind = "Identifier" -> {expr.name}
    [] expr.kind = "BinaryExpression" -> Names(expr.left) \cup Names(expr.right)
    [] expr.kind = "FunctionCall" ->
         Names(expr.callee) \cup UNION {Names(expr.args[i]) : i \in 1..Len(expr.args)}
    [] OTHER -> {}

\* the declarations of the functions that an expression names
DeclarationsFor(expr) ==
  SelectSeq(Declarations, LAMBDA declaration : declaration.name \in Names(expr))

\* one operand expression per kind of value and type
Operands ==
  { Num(0), StringLiteral("a"), BooleanLiteral(TRUE), Id("f"), Id("g"), Id("print") }

\* every pair of kinds, and pairs of different values of one kind
OperandPairs ==
  (Operands \X Operands)
  \cup { <<Num(0), Num(2)>>, <<Num(2), Num(0)>>, <<Num(2), Num(2)>>,
         <<StringLiteral("a"), StringLiteral("b")>>,
         <<BooleanLiteral(TRUE), BooleanLiteral(FALSE)>>,
         <<Id("f"), Id("h")>>, <<Id("k"), Id("f")>>, <<Id("f"), Id("k")>> }

BinaryPrograms ==
  { DeclarationsFor(BinaryExpression(pair[1], op, pair[2]))
    \o <<Expr(BinaryExpression(pair[1], op, pair[2]))>> :
      pair \in OperandPairs, op \in NumericCases }
  \cup { <<Expr(BinaryExpression(Num(2), DIVIDE,
                                 BinaryExpression(Num(2), MINUS, Num(2))))>>,
         <<Let("z", Num(0)), Expr(BinaryExpression(Id("z"), DIVIDE, Id("z")))>>,
         <<Expr(BinaryExpression(BinaryExpression(Num(2), DIVIDE, Num(4)),
                                 EQUAL,
                                 BinaryExpression(Num(1), DIVIDE, Num(2))))>> }

\* a variable declaration for every combination of annotation and
\* initializer, after an earlier binding of the name or none, and a use of
\* the name after it
Annotations ==
  { Null, number, PrimitiveType("string"), PrimitiveType("boolean"),
    OptionType(number) }

Initializers ==
  { Null, Num(2), StringLiteral("a"), BooleanLiteral(TRUE), Id("f"),
    CallOf("f", <<Num(2)>>), BinaryExpression(Num(2), LESS, Num(2)) }

DeclarationPrograms ==
  { DeclarationsFor(initializer)
    \o Compact(<<earlier, VariableDeclaration("v", annotation, initializer, FALSE),
                 Expr(Id("v"))>>) :
      earlier \in {Null, Let("v", StringLiteral("a"))},
      annotation \in Annotations, initializer \in Initializers }

\* calls of a one-parameter, a two-parameter and a parameterless function,
\* of a number and of a function's result, with argument lists of every
\* length up to three
Callees == { Id("f"), Id("k"), Id("p"), Id("v"), CallOf("k", <<>>) }

Arguments ==
  { <<>>, <<Num(2)>>, <<StringLiteral("a")>>, <<Id("f")>>,
    <<Num(2), StringLiteral("a")>>, <<StringLiteral("a"), Num(2)>>,
    <<Num(2), Num(2)>>, <<StringLiteral("a"), StringLiteral("a")>>,
    <<CallOf("f", <<Num(2)>>), StringLiteral("a")>>,
    <<Num(2), StringLiteral("a"), Num(2)>> }

CallPrograms ==
  { DeclarationsFor(FunctionCall(callee, args))
    \o <<Let("v", Num(2)), Expr(FunctionCall(callee, args))>> :
      callee \in Callees, args \in Arguments }

\* blocks nested three deep that declare new names and redeclare outer
\* ones with another type, with a use of a name after the inner blocks and
\* after the function
ScopePrograms ==
  { Compact(<<
      Let("x", StringLiteral("a")),
      FunctionDeclaration("f", <<Param("n", number)>>, number,
        Compact(<<
          Let("x", Num(2)),
          IfStatement(BinaryExpression(Id("n"), LESS, Num(2)),
            << Let("x", BooleanLiteral(TRUE)),
               Let("y", Num(2)),
               IfStatement(Id("x"),
                 <<Let("y", StringLiteral("b")), Let("q", Num(1))>>, Null),
               Expr(Id("y")) >>,
            Block(<<Let("z", Num(2)), Expr(Id("n"))>>)),
          inner >>)),
      IfStatement(BooleanLiteral(TRUE), <<Let("x", Num(2)), Let("w", Num(2))>>,
                  Null),
      outer,
      Expr(CallOf("f", <<Num(1)>>)) >>) :
      inner \in {Null, Expr(Id("x")), Expr(Id("y")), Expr(Id("z"))},
      outer \in {Null, Expr(Id("x")), Expr(Id("n")), Expr(Id("w")), Expr(Id("y"))} }

\* one expression per type: primitive types, function types of zero, one
\* and two parameters, option and result types
TypedOperands ==
  { Num(0), StringLiteral("a"), Id("f"), Id("g"), Id("k"), Id("p"), Id("o"), Id("q"),
    CallOf("o", <<>>), CallOf("q", <<>>), CallOf("r", <<>>), CallOf("w", <<>>) }

\* the annotations that parseType builds from a type name
NamedAnnotations ==
  { number, OptionType(number), OptionType(PrimitiveType("string")),
    ResultType(number, PrimitiveType("string")), ResultType(number, number),
    ResultType(PrimitiveType("string"), number) }

\* a == b for every pair of typed operands, and let v: T = a
EqualityPrograms ==
  { DeclarationsFor(BinaryExpression(a, EQUAL, b))
    \o <<Expr(BinaryExpression(a, EQUAL, b))>> : a \in TypedOperands, b \in TypedOperands }
  \cup { DeclarationsFor(a) \o <<VariableDeclaration("v", annotation, a, FALSE)>> :
           a \in TypedOperands, annotation \in NamedAnnotations }

Programs ==
  { Compact(<<b, f, m, u, a>>) :
      b \in Before, f \in Functions, m \in Between, u \in Uses, a \in After }
  \cup BinaryPrograms \cup DeclarationPrograms \cup CallPrograms
  \cup ScopePrograms \cup EqualityPrograms

FactorialSource ==
  "fn factorial(n: number) -> number { if (n <= 1) { 1; } else { n * factorial(n - 1); } } factorial(5);"

\* malformed statements (no initializer expression, no ';', no right
\* operand, no variable name), each followed by a well-formed statement, at
\* top level, in a function body and in an if-branch
Malformed == { "let x = ; ", "let x = 1 ", "1 + ; ", "let = 5; " }

WellFormed == { "let y = 5;", "y;" }

InFunction(text) == "fn f() -> number { " \o text \o " }"

InBranch(text) == "if (true) { " \o text \o " }"

Sequels == { bad \o good : bad \in Malformed, good \in WellFormed }

RecoverySources ==
  Sequels \cup { InFunction(text) : text \in Sequels }
          \cup { InBranch(text) : text \in Sequels }

\* expression statements of three and four number literals joined by every
\* combination of + - * /
ArithmeticOperands ==
  { <<"2", "3", "4">>, <<"10", "4", "3">>, <<"8", "4", "2">>, <<"8", "4", "2", "3">> }

RECURSIVE OperatorLists(_)
OperatorLists(n) ==
  IF n = 0 THEN {<<>>}
  ELSE {Append(ops, op) : ops \in OperatorLists(n - 1), op \in {PLUS, MINUS, MULTIPLY, DIVIDE}}

ArithmeticInputs ==
  UNION { {[operands |-> operands, operators |-> ops] :
             ops \in OperatorLists(Len(operands) - 1)} :
          operands \in ArithmeticOperands }

RECURSIVE ArithmeticText(_, _)
ArithmeticText(input, i) ==
  IF i > Len(input.operators) THEN input.operands[i] \o ";"
  ELSE input.operands[i] \o " " \o input.operators[i] \o " " \o ArithmeticText(input, i + 1)

ArithmeticSources == { ArithmeticText(input, 1) : input \in ArithmeticInputs }

\* sources that end in a token, in white space, or are empty
EndSources == { "", " ", "\t", "\n", "1;", "1; ", "1;\n", "1;\n\n  " }

\* a character that starts no token, after and before text that holds none
UnexpectedInputs ==
  { [before |-> before, char |-> char, after |-> after] :
      before \in {"", "x ", "a", "1;\n  ", "\"@\" ", "let s = \"a\nb\"; "},
      char \in {"@", "#", "!", "$", "?"},
      after \in {"", " y;", "x"} }

UnexpectedText(input) == input.before \o input.char \o input.after

UnexpectedSources == { UnexpectedText(input) : input \in UnexpectedInputs }

\* string literals: the characters between the quotes, what stands before
\* and after the literal, and whether the closing quote is there
StringInputs ==
  { [before |-> before, content |-> content, after |-> after, closed |-> closed] :
      before \in {"", "let s = ", "1;\n"},
      content \in {"", "abc", "a\\nb", "a\nb", "x + 1", "@ #", "\\"},
      after \in {"", ";", " x"},
      closed \in BOOLEAN }

StringText(input) ==
  IF input.closed
  THEN input.before \o "\"" \o input.content \o "\"" \o input.after
  ELSE input.before \o "\"" \o input.content

StringSources == { StringText(input) : input \in StringInputs }

\* runs of one to three operator characters, alone and between two names
OperatorCharacters == {"=", "!", "-", ">", "<"}

OperatorRuns ==
  OperatorCharacters \cup
  { a \o b : a \in OperatorCharacters, b \in OperatorCharacters } \cup
  { a \o b \o c : a \in OperatorCharacters, b \in OperatorCharacters,
                  c \in OperatorCharacters }

OperatorSources ==
  OperatorRuns \cup { "a" \o run \o "b" : run \in { r \in OperatorRuns : Len(r) <= 2 } }

\* runs of letters, digits and underscores: the keyword table, runs that
\* start with a keyword, plain names, and names that every object carries
IdentifierRuns ==
  Keywords \cup {"true", "false"} \cup
  {"letter", "iffy", "fn1", "_let", "truex", "else_", "x", "a_1", "_"} \cup
  {"constructor", "toString", "valueOf", "hasOwnProperty", "__proto__"}

IdentifierSources == { run \o ";" : run \in IdentifierRuns }

LexerSources ==
  EndSources \cup UnexpectedSources \cup StringSources \cup OperatorSources \cup
  IdentifierSources

Sources ==
  RecoverySources \cup ArithmeticSources \cup LexerSources \cup
  { FactorialSource,
    "fn factorial(n: number) -> number { if (n < 2) { 1; } else { n * factorial(n - 1); } } factorial(5);",
    "let x = 2 + 3 * 4;\nx;",
    "let x = ; let y = 5;",
    "6 / (3 - 3);" }

(***************************************************************************)
(* The pipeline as a state machine: one Lexer and Parser run per source,   *)
(* and one TypeChecker and one Interpreter instance whose typeCheck and    *)
(* interpret methods are called on the tree.                               *)
(***************************************************************************)
VARIABLES
  source,    \* the text given to the Lexer ("" when the tree is given directly)
  pc,        \* "lex", "parse", "ast" (tree available), "lexerror"
  tokens,    \* result of tokenize
  lexed,     \* how tokenize ended: exception, loop positions (Null before)
  parsed,    \* result of parse (Null before)
  ast,       \* the statement list shared by checker and interpreter
  checker,   \* the TypeChecker's fields scope and scopes
  checks,    \* results of the typeCheck calls made so far
  globals,   \* the Interpreter's globals map (this.environment aliases it)
  runs,      \* results of the interpret calls made so far
  history,   \* the typeCheck and interpret calls made on the tree, in order
  channel,   \* the Channel's fields (Null when there is no channel)
  immediates,\* the callbacks queued with setImmediate, oldest first
  sends,     \* the send calls made so far: value and state of the promise
  receives,  \* the receive calls made so far: state of the promise, value
  stm,       \* the STMValues by name: value and version (<<>> when none)
  tasks,     \* the STM.atomically calls: position, operation, transaction
  commits,   \* the Transaction.commit calls made so far, with their effect
  resolver,  \* the DependencyResolver and its resolve calls (Null when none)
  promises,  \* the PromiseValues and their callbacks (Null when none)
  scheduler, \* the WorkStealingScheduler and its tasks (Null when none)
  actors     \* the ActorSystem, its actors and queue (Null when none)

pipelineVars ==
  <<source, pc, tokens, lexed, parsed, ast, checker, checks, globals, runs, history>>

channelVars == <<channel, immediates, sends, receives>>

stmVars == <<stm, tasks, commits>>

libraryVars == <<resolver, promises, scheduler, actors>>

concurrencyVars == <<channelVars, stmVars, libraryVars>>

vars == <<pipelineVars, concurrencyVars>>

\* no concurrency object has been made
NoChannel ==
  channel = Null /\ immediates = <<>> /\ sends = <<>> /\ receives = <<>>

NoSTM == stm = <<>> /\ tasks = <<>> /\ commits = <<>>

NoLibrary(used) ==
  /\ "resolver" \in used \/ resolver = Null
  /\ "promises" \in used \/ promises = Null
  /\ "scheduler" \in used \/ scheduler = Null
  /\ "actors" \in used \/ actors = Null

NoConcurrency == NoChannel /\ NoSTM /\ NoLibrary({})

\* the pipeline has no source and no tree; pc names the library in use
NoPipeline(library) ==
  /\ source = "" /\ pc = library /\ ast = <<>>
  /\ tokens = <<>> /\ lexed = Null /\ parsed = Null
  /\ checker = [scope |-> EmptyMap, scopes |-> <<>>]
  /\ checks = <<>> /\ globals = EmptyMap /\ runs = <<>> /\ history = <<>>

Init ==
  /\ \/ source \in Sources /\ pc = "lex" /\ ast = <<>>
     \/ source = "" /\ pc = "ast" /\ ast \in Programs
  /\ tokens = <<>>
  /\ lexed = Null
  /\ parsed = Null
  /\ checker = [scope |-> EmptyMap, scopes |-> <<>>]
  /\ checks = <<>>
  /\ globals = EmptyMap
  /\ runs = <<>>
  /\ history = <<>>
  /\ NoConcurrency

\* Compiler.compile, lines 5-6
Tokenize ==
  /\ pc = "lex"
  /\ \E r \in {tokenize(source)} :
         /\ tokens' = r.tokens
         /\ lexed' = [thrown |-> r.thrown, trace |-> r.trace, final |-> r.final,
                      halted |-> r.halted]
         /\ pc' = IF ~r.halted THEN "lexloop"
                  ELSE IF r.thrown = Null THEN "parse" ELSE "lexerror"
  /\ UNCHANGED <<source, parsed, ast, checker, checks, globals, runs, history>>
  /\ UNCHANGED concurrencyVars

\* Compiler.compile, lines 9-10
Parse ==
  /\ pc = "parse"
  /\ \E r \in {parse(tokens)} :
         /\ parsed' = r
         /\ ast' = r.statements
  /\ pc' = "ast"
  /\ UNCHANGED <<source, tokens, lexed, checker, checks, globals, runs, history>>
  /\ UNCHANGED concurrencyVars

\* typeChecker.typeCheck(ast), called before a run as compile does (line 14
\* before line 25), on a tree that was checked before each earlier run
TypeCheck ==
  /\ pc = "ast"
  /\ Len(checks) < MaxRuns
  /\ Len(checks) = Len(runs)
  /\ \E r \in {typeCheck(ast, checker.scope, checker.scopes)} :
         /\ checker' = [scope |-> r.scope, scopes |-> r.scopes]
         /\ ast' = r.ast
         /\ checks' = Append(checks, [thrown |-> r.thrown, log |-> r.log])
  /\ history' = Append(history, "typeCheck")
  /\ UNCHANGED <<source, pc, tokens, lexed, parsed, globals, runs>>
  /\ UNCHANGED concurrencyVars

\* Compiler.compile, lines 20-23: interpreter['globals'].set(name, value)
RegisterBuiltins ==
  /\ pc = "ast"
  /\ runs = <<>>
  /\ ~MapHas(globals, "print")
  /\ globals' = [name \in DOMAIN globals \cup DOMAIN getBuiltins |->
                   IF name \in DOMAIN getBuiltins THEN getBuiltins[name]
                   ELSE globals[name]]
  /\ UNCHANGED <<source, pc, tokens, lexed, parsed, ast, checker, checks, runs, history>>
  /\ UNCHANGED concurrencyVars

\* interpreter.interpret(ast)
InterpretAst ==
  /\ pc = "ast"
  /\ Len(runs) < MaxRuns
  /\ \E r \in {Interpret(ast, globals)} :
         /\ globals' = r.env
         /\ runs' = Append(runs, [initial |-> globals, log |-> r.log,
                                  reported |-> r.reported, thrown |-> r.thrown,
                                  final |-> r.env])
  /\ history' = Append(history, "interpret")
  /\ UNCHANGED <<source, pc, tokens, lexed, parsed, ast, checker, checks>>
  /\ UNCHANGED concurrencyVars

Next == Tokenize \/ Parse \/ TypeCheck \/ RegisterBuiltins \/ InterpretAst

Spec == Init /\ [][Next]_vars

(***************************************************************************)
(* Channel (src/src/concurrency/async.ts, 257-335).  The calls are made by *)
(* one JavaScript thread: a call of send or receive runs to its end before *)
(* the next one starts, and a callback given to setImmediate runs later,   *)
(* in the order of queueing.  The k-th send call sends NumberValue(k).  A  *)
(* promise is named by the number of the call that made it.                *)
(***************************************************************************)
\* field initializers and constructor, lines 258-265
NewChannel(capacity) ==
  [capacity |-> capacity, buffer |-> <<>>, readers |-> <<>>, writers |-> <<>>,
   closed |-> FALSE]

\* Channel.send, lines 271-292: the channel after the call, the callbacks
\* it queued, and the state of the promise it returned
send(ch, value, promise) ==
  IF ch.closed
  THEN [channel |-> ch, queued |-> <<>>, promise |-> "rejected"]
  ELSE IF Len(ch.readers) > 0
  THEN [channel |-> [ch EXCEPT !.readers = Tail(@)],
        queued |-> <<[reader |-> Head(ch.readers), value |-> value]>>,
        promise |-> "resolved"]
  ELSE IF Len(ch.buffer) < ch.capacity
  THEN [channel |-> [ch EXCEPT !.buffer = Append(@, value)],
        queued |-> <<>>, promise |-> "resolved"]
  ELSE [channel |-> [ch EXCEPT !.writers = Append(@, [value |-> value, resolve |-> promise])],
        queued |-> <<>>, promise |-> "pending"]

\* Channel.receive, lines 294-314; value is meaningful for a resolved promise
receive(ch, promise) ==
  IF Len(ch.buffer) > 0
  THEN IF Len(ch.writers) > 0
       THEN [channel |-> [ch EXCEPT !.buffer = Append(Tail(@), Head(ch.writers).value),
                                    !.writers = Tail(@)],
             queued |-> <<[writer |-> Head(ch.writers).resolve]>>,
             promise |-> "resolved", value |-> Head(ch.buffer)]
       ELSE [channel |-> [ch EXCEPT !.buffer = Tail(@)], queued |-> <<>>,
             promise |-> "resolved", value |-> Head(ch.buffer)]
  ELSE IF ch.closed
  THEN [channel |-> ch, queued |-> <<>>, promise |-> "rejected", value |-> 0]
  ELSE [channel |-> [ch EXCEPT !.readers = Append(@, promise)], queued |-> <<>>,
        promise |-> "pending", value |-> 0]

\* Channel.close, lines 316-331: one callback per waiting reader, which
\* throws and catches its own error and never calls the reader
close(ch) ==
  [channel |-> [ch EXCEPT !.closed = TRUE, !.readers = <<>>],
   queued |-> [i \in 1..Len(ch.readers) |-> [swallowed |-> ch.readers[i]]]]

\* new Channel<NumberValue>(capacity)
ChannelInit ==
  /\ NoPipeline("channel") /\ NoSTM /\ NoLibrary({})
  /\ channel \in { NewChannel(capacity) : capacity \in 0..MaxCapacity }
  /\ immediates = <<>> /\ sends = <<>> /\ receives = <<>>

\* channel.send(new NumberValue(k)), k the number of the call
Send ==
  /\ pc = "channel" /\ Len(sends) < MaxSends
  /\ \E r \in {send(channel, Len(sends) + 1, Len(sends) + 1)} :
       /\ channel' = r.channel
       /\ immediates' = immediates \o r.queued
       /\ sends' = Append(sends, [value |-> Len(sends) + 1, promise |-> r.promise])
  /\ UNCHANGED <<pipelineVars, receives, stmVars, libraryVars>>

\* channel.receive()
Receive ==
  /\ pc = "channel" /\ Len(receives) < MaxReceives
  /\ \E r \in {receive(channel, Len(receives) + 1)} :
       /\ channel' = r.channel
       /\ immediates' = immediates \o r.queued
       /\ receives' = Append(receives, [promise |-> r.promise, value |-> r.value])
  /\ UNCHANGED <<pipelineVars, sends, stmVars, libraryVars>>

\* channel.close() on a channel that is open
Close ==
  /\ pc = "channel" /\ ~channel.closed
  /\ \E r \in {close(channel)} :
       /\ channel' = r.channel
       /\ immediates' = immediates \o r.queued
  /\ UNCHANGED <<pipelineVars, sends, receives, stmVars, libraryVars>>

\* the event loop runs the oldest setImmediate callback: reader(value) of
\* line 280 resolves a receive, writer.resolve() of line 302 a send, and the
\* callback of lines 322-328 changes nothing
RunImmediate ==
  /\ pc = "channel" /\ immediates # <<>>
  /\ immediates' = Tail(immediates)
  /\ IF "reader" \in DOMAIN Head(immediates)
     THEN /\ receives' = [receives EXCEPT ![Head(immediates).reader] =
                            [promise |-> "resolved", value |-> Head(immediates).value]]
          /\ sends' = sends
     ELSE IF "writer" \in DOMAIN Head(immediates)
     THEN /\ sends' = [sends EXCEPT ![Head(immediates).writer].promise = "resolved"]
          /\ receives' = receives
     ELSE UNCHANGED <<sends, receives>>
  /\ UNCHANGED <<pipelineVars, channel, stmVars, libraryVars>>

ChannelNext == Send \/ Receive \/ Close \/ RunImmediate

ChannelSpec == ChannelInit /\ [][ChannelNext]_vars

\* the event loop runs every callback that setImmediate queued; the calls
\* of send, receive and close are the program's and need not happen
ChannelFairSpec == ChannelSpec /\ WF_vars(RunImmediate)

(***************************************************************************)
(* Software transactional memory (src/src/concurrency/async.ts, 342-448).  *)
(* The STMValues are named; stm maps a name to the object's value and      *)
(* version.  A Map is a sequence of entries in insertion order.  A task is *)
(* one call of STM.atomically.  Transaction.commit has no await and runs   *)
(* to its end in one step; between the operation of a call and its commit  *)
(* other calls may commit (an operation may itself run transactions, and   *)
(* Transaction is exported for direct use).                                *)
(***************************************************************************)
\* new STMValue(initialValue), lines 343-349
NewSTMValue(initialValue) == [value |-> initialValue, version |-> 0]

\* new Transaction(), lines 380-382
NewTransaction == [reads |-> <<>>, writes |-> <<>>, committed |-> FALSE]

\* Map.has and Map.get on a sequence of entries
HasEntry(entries, key) == \E i \in 1..Len(entries) : entries[i].key = key

EntryOf(entries, key) == entries[CHOOSE i \in 1..Len(entries) : entries[i].key = key]

\* Transaction.addRead, lines 384-388
addRead(t, stmValue, version) ==
  IF ~HasEntry(t.reads, stmValue)
  THEN [t EXCEPT !.reads = Append(@, [key |-> stmValue, version |-> version])]
  ELSE t

\* Transaction.addWrite, lines 390-392: Map.set keeps the place of a key
addWrite(t, stmValue, value) ==
  IF HasEntry(t.writes, stmValue)
  THEN [t EXCEPT !.writes = [i \in 1..Len(@) |->
                              IF @[i].key = stmValue
                              THEN [key |-> stmValue, value |-> value] ELSE @[i]]]
  ELSE [t EXCEPT !.writes = Append(@, [key |-> stmValue, value |-> value])]

\* the operation of the test, lines 44-49, for each of the named values in
\* turn: counter.read(transaction), counter.write(transaction, current + 1)
RECURSIVE Increment(_, _, _)
Increment(store, t, counters) ==
  IF counters = <<>> THEN t
  ELSE Increment(store,
                 addWrite(addRead(t, Head(counters), store[Head(counters)].version),
                          Head(counters), store[Head(counters)].value + 1),
                 Tail(counters))

\* STMValue.commit, lines 364-372: the outcome and the object after the call
STMValueCommit(object, newValue, expectedVersion) ==
  IF object.version # expectedVersion THEN [ok |-> FALSE, object |-> object]
  ELSE [ok |-> TRUE, object |-> [value |-> newValue, version |-> object.version + 1]]

\* a validation that accepts every read
Validate_Skip(store, reads) == TRUE

\* the loop of lines 400-404: every read has the version it was read at
Validate(store, reads) ==
  \A i \in 1..Len(reads) : store[reads[i].key].version = reads[i].version

\* line 408: this.reads.get(stmValue) || stmValue.getCurrentVersion(); a
\* version 0 that was read is falsy
ReadVersion(store, reads, stmValue) ==
  IF HasEntry(reads, stmValue) /\ EntryOf(reads, stmValue).version # 0
  THEN EntryOf(reads, stmValue).version
  ELSE store[stmValue].version

\* the loop of lines 407-412 from the i-th write on
RECURSIVE ApplyWrites(_, _, _)
ApplyWrites(store, t, i) ==
  IF i > Len(t.writes) THEN [ok |-> TRUE, store |-> store]
  ELSE Only([c \in {STMValueCommit(store[t.writes[i].key], t.writes[i].value,
                                    ReadVersion(store, t.reads, t.writes[i].key))} |->
         IF ~c.ok THEN [ok |-> FALSE, store |-> store]
         ELSE ApplyWrites([store EXCEPT ![t.writes[i].key] = c.object], t, i + 1)])

\* Transaction.commit, lines 394-416: outcome "true", "false" or "thrown"
TransactionCommit(store, t) ==
  IF t.committed THEN [outcome |-> "thrown", store |-> store, transaction |-> t]
  ELSE IF ~Validate(store, t.reads)
  THEN [outcome |-> "false", store |-> store, transaction |-> t]
  ELSE Only([w \in {ApplyWrites(store, t, 1)} |->
         IF ~w.ok THEN [outcome |-> "false", store |-> w.store, transaction |-> t]
         ELSE [outcome |-> "true", store |-> w.store,
               transaction |-> [t EXCEPT !.committed = TRUE]]])

\* the operations: which counters a call reads and increments
Operations == { <<"y">>, <<"x", "y">> }

\* two counters at 0, and MaxTasks calls of STM.atomically about to start
STMInit ==
  /\ NoPipeline("stm") /\ NoChannel /\ NoLibrary({})
  /\ stm = [counter \in {"x", "y"} |-> NewSTMValue(0)]
  /\ tasks \in [1..MaxTasks ->
                 { [pc |-> "loop", operation |-> operation, retries |-> 0,
                    transaction |-> NewTransaction] : operation \in Operations }]
  /\ commits = <<>>

\* lines 424-428: a turn of the loop makes a transaction and runs the
\* operation on it
Operate(task) ==
  /\ pc = "stm" /\ tasks[task].pc = "loop" /\ tasks[task].retries < maxRetries
  /\ tasks' = [tasks EXCEPT ![task].pc = "commit",
                            ![task].transaction =
                               Increment(stm, NewTransaction, tasks[task].operation)]
  /\ UNCHANGED <<pipelineVars, channelVars, libraryVars, stm, commits>>

\* lines 430-436: transaction.commit(); true returns the result, false
\* counts a retry and waits
Commit(task) ==
  /\ pc = "stm" /\ tasks[task].pc = "commit"
  /\ \E r \in {TransactionCommit(stm, tasks[task].transaction)} :
       /\ stm' = r.store
       /\ tasks' = [tasks EXCEPT
                      ![task].transaction = r.transaction,
                      ![task].pc = IF r.outcome = "true" THEN "returned"
                                   ELSE IF r.outcome = "false" THEN "delay"
                                   ELSE "thrown",
                      ![task].retries = IF r.outcome = "false" THEN @ + 1 ELSE @]
       /\ commits' = Append(commits, [task |-> task, transaction |-> tasks[task].transaction,
                                      before |-> stm, after |-> r.store,
                                      outcome |-> r.outcome])
  /\ UNCHANGED <<pipelineVars, channelVars, libraryVars>>

\* line 436: the timer of delay fires and the loop tests retries again
Delay(task) ==
  /\ pc = "stm" /\ tasks[task].pc = "delay"
  /\ tasks' = [tasks EXCEPT ![task].pc = "loop"]
  /\ UNCHANGED <<pipelineVars, channelVars, libraryVars, stm, commits>>

\* line 442: throw new Error('Transaction failed after maximum retries')
GiveUp(task) ==
  /\ pc = "stm" /\ tasks[task].pc = "loop" /\ tasks[task].retries >= maxRetries
  /\ tasks' = [tasks EXCEPT ![task].pc = "thrown"]
  /\ UNCHANGED <<pipelineVars, channelVars, libraryVars, stm, commits>>

STMNext ==
  \E task \in 1..MaxTasks : Operate(task) \/ Commit(task) \/ Delay(task) \/ GiveUp(task)

STMSpec == STMInit /\ [][STMNext]_vars

(***************************************************************************)
(* DependencyResolver (src/unnamed/part_007, 442-483).  The resolver's     *)
(* field dependencies is a map from package name to the list given to the  *)
(* last addDependency call for it.                                         *)
(***************************************************************************)
Packages == {"A", "B", "C", "D"}

DependencyLists ==
  { <<>>, <<"A">>, <<"D">>, <<"B", "C">>, <<"C", "A">>, <<"D", "D">> }

\* Array.prototype.join
RECURSIVE Join(_, _)
Join(list, separator) ==
  IF list = <<>> THEN ""
  ELSE IF Len(list) = 1 THEN list[1]
  ELSE list[1] \o separator \o Join(Tail(list), separator)

\* JSON.stringify of an array of strings that need no escaping
Stringify(list) ==
  "[" \o Join([i \in 1..Len(list) |-> "\"" \o list[i] \o "\""], ",") \o "]"

\* Set.prototype.add and delete on a set kept in insertion order
SetAdd(list, x) == IF \E i \in 1..Len(list) : list[i] = x THEN list ELSE Append(list, x)

SetDelete(list, x) == SelectSeq(list, LAMBDA y : y # x)

\* a visit that never finds its package among those being visited
Circular_Never(v, pkg) == FALSE

\* line 457: visiting.has(pkg)
Circular(v, pkg) == \E i \in 1..Len(v.visiting) : v.visiting[i] = pkg

RECURSIVE visit(_, _, _)
RECURSIVE VisitAll(_, _, _, _)

\* the closure visit of resolve (lines 452-470) on the locals resolved,
\* visiting and visited; depth counts the activations of visit on the host
\* stack, which is finite: the activation that would exceed it raises the
\* host's RangeError
visit(dependencies, pkg, v) ==
  IF pkg \in v.visited THEN v
  ELSE IF Circular(v, pkg)
  THEN [v EXCEPT !.sig = "err",
                 !.error = "Error: Circular dependency detected: "
                           \o Join(v.visiting, " -> ") \o " -> " \o pkg]
  ELSE IF v.depth >= MaxVisitDepth
  THEN [v EXCEPT !.sig = "err",
                 !.error = "RangeError: Maximum call stack size exceeded"]
  ELSE Only([d \in {VisitAll(dependencies,
                             IF MapHas(dependencies, pkg) THEN dependencies[pkg] ELSE <<>>,
                             1,
                             [v EXCEPT !.visiting = SetAdd(@, pkg),
                                       !.depth = @ + 1])} |->
         IF d.sig # "ok" THEN d
         ELSE [d EXCEPT !.visiting = SetDelete(@, pkg),
                        !.visited = @ \cup {pkg},
                        !.resolved = Append(@, pkg),
                        !.depth = v.depth]])

\* for (const dep of deps) visit(dep)
VisitAll(dependencies, deps, i, v) ==
  IF i > Len(deps) THEN v
  ELSE Only([d \in {visit(dependencies, deps[i], v)} |->
         IF d.sig # "ok" THEN d ELSE VisitAll(dependencies, deps, i + 1, d)])

\* DependencyResolver.resolve, lines 447-476
resolve(dependencies, rootPackage) ==
  Only([v \in {visit(dependencies, rootPackage,
                     [resolved |-> <<>>, visiting |-> <<>>, visited |-> {},
                      depth |-> 0, sig |-> "ok", error |-> ""])} |->
    IF v.sig = "ok"
    THEN ResultValue(TRUE, StringValue(Stringify(v.resolved)))
    ELSE ResultValue(FALSE, StringValue("Dependency resolution failed: " \o v.error))])

\* new DependencyResolver()
ResolverInit ==
  /\ NoPipeline("resolver") /\ NoChannel /\ NoSTM /\ NoLibrary({"resolver"})
  /\ resolver = [dependencies |-> EmptyMap, adds |-> 0, root |-> "", registered |-> EmptyMap,
                 result |-> Null]

\* resolver.addDependency(pkg, deps), line 444
AddDependency ==
  /\ pc = "resolver" /\ resolver.adds < MaxAdds
  /\ \E pkg \in Packages, deps \in DependencyLists :
       resolver' = [resolver EXCEPT !.dependencies = MapSet(@, pkg, deps),
                                    !.adds = @ + 1]
  /\ UNCHANGED <<pipelineVars, channelVars, stmVars, promises, scheduler, actors>>

\* resolver.resolve(root): the last call is kept with its argument, the
\* dependencies registered at that moment and its result
ResolveRoot ==
  /\ pc = "resolver"
  /\ \E root \in Packages :
       resolver' = [resolver EXCEPT !.root = root,
                                    !.registered = resolver.dependencies,
                                    !.result = resolve(resolver.dependencies, root)]
  /\ UNCHANGED <<pipelineVars, channelVars, stmVars, promises, scheduler, actors>>

ResolverNext == AddDependency \/ ResolveRoot

ResolverSpec == ResolverInit /\ [][ResolverNext]_vars

(***************************************************************************)
(* PromiseValue (src/src/concurrency/async.ts, 11-128).  promises.table    *)
(* holds the PromiseValues by number: promise 1 is made by the program,    *)
(* which keeps the resolve and reject functions its executor received; the *)
(* others are returned by then and catch.  promises.handlers holds the     *)
(* functions given to then and catch, each with the arguments of its       *)
(* invocations; a handler returns a number or throws.  A callback is a     *)
(* record naming the closure (handleFulfilled, handleRejected, or the      *)
(* resolve or reject function of the target promise).                      *)
(***************************************************************************)
NewPromise ==
  [state |-> "pending", value |-> Null, callbacks |-> <<>>, errorCallbacks |-> <<>>]

\* a settled test that lets a settled promise be settled again
AlreadySettled_Never(promise) == FALSE

\* lines 51 and 63: this.state differs from 'pending'
AlreadySettled(promise) == promise.state # "pending"

\* setImmediate(() => callback(value)) for every callback of a list
Scheduled(list, value) ==
  [i \in 1..Len(list) |-> [callback |-> list[i], from |-> 0, argument |-> value]]

\* PromiseValue.resolve (private), lines 50-60
promiseResolve(ps, p, value) ==
  IF AlreadySettled(ps.table[p]) THEN ps
  ELSE [ps EXCEPT !.table[p].state = "fulfilled",
                  !.table[p].value = value,
                  !.table[p].callbacks = <<>>,
                  !.immediates = @ \o Scheduled(ps.table[p].callbacks, value)]

\* PromiseValue.reject (private), lines 62-72
promiseReject(ps, p, error) ==
  IF AlreadySettled(ps.table[p]) THEN ps
  ELSE [ps EXCEPT !.table[p].state = "rejected",
                  !.table[p].value = error,
                  !.table[p].errorCallbacks = <<>>,
                  !.immediates = @ \o Scheduled(ps.table[p].errorCallbacks, error)]

\* the body shared by handleFulfilled (lines 76-91) and handleRejected
\* (lines 106-118): the handler is invoked with the value, and the promise
\* that then or catch returned is settled with what the handler did
Handle(ps, callback, value) ==
  Only([invoked \in {[ps EXCEPT !.handlers[callback.handler].invoked = Append(@, value)]} |->
    IF ps.handlers[callback.handler].behaviour = "throw"
    THEN promiseReject(invoked, callback.target, StringValue("thrown"))
    ELSE promiseResolve(invoked, callback.target, NumberValue(9))])

\* PromiseValue.then (lines 74-102) and PromiseValue.catch (lines 104-128):
\* the new promise is the next one of the table; its executor runs at once
Register(ps, p, kind, behaviour) ==
  Only([h \in {Len(ps.handlers) + 1} |->
  Only([q \in {Len(ps.table) + 1} |->
  Only([own \in {[kind |-> IF kind = "then" THEN "handleFulfilled" ELSE "handleRejected",
                  handler |-> h, target |-> q]} |->
  Only([pass \in {[kind |-> IF kind = "then" THEN "reject" ELSE "resolve",
                   handler |-> 0, target |-> q]} |->
  Only([made \in {[ps EXCEPT !.table = Append(@, NewPromise),
                             !.handlers = Append(@, [promise |-> p, kind |-> kind,
                                                     behaviour |-> behaviour,
                                                     invoked |-> <<>>])]} |->
    IF ps.table[p].state = "pending"
    THEN [made EXCEPT !.table[p].callbacks =
                        Append(@, IF kind = "then" THEN own ELSE pass),
                      !.table[p].errorCallbacks =
                        Append(@, IF kind = "then" THEN pass ELSE own)]
    ELSE [made EXCEPT !.immediates =
            Append(@, [callback |-> IF (ps.table[p].state = "fulfilled") = (kind = "then")
                                    THEN own ELSE pass,
                       from |-> p, argument |-> Null])]])])])])])

\* one callback that setImmediate queued is run; a callback queued by then
\* or catch on a settled promise reads this.value when it runs
RunCallback(ps) ==
  Only([e \in {Head(ps.immediates)} |->
  Only([value \in {IF e.from # 0 THEN ps.table[e.from].value ELSE e.argument} |->
  Only([rest \in {[ps EXCEPT !.immediates = Tail(@)]} |->
    CASE e.callback.kind = "resolve" -> promiseResolve(rest, e.callback.target, value)
      [] e.callback.kind = "reject" -> promiseReject(rest, e.callback.target, value)
      [] OTHER -> Handle(rest, e.callback, value)])])])

\* new PromiseValue(executor) with an executor that keeps resolve and reject
PromiseInit ==
  /\ NoPipeline("promises") /\ NoChannel /\ NoSTM /\ NoLibrary({"promises"})
  /\ promises = [table |-> <<NewPromise>>, immediates |-> <<>>, handlers |-> <<>>,
                 settles |-> 0]

\* the program calls the resolve function of promise 1; its k-th call of
\* resolve or reject passes NumberValue(k)
CallResolve ==
  /\ pc = "promises" /\ promises.settles < MaxSettles
  /\ \E n \in {promises.settles + 1} :
       promises' = [promiseResolve(promises, 1, NumberValue(n)) EXCEPT !.settles = @ + 1]
  /\ UNCHANGED <<pipelineVars, channelVars, stmVars, resolver, scheduler, actors>>

\* the program calls the reject function of promise 1
CallReject ==
  /\ pc = "promises" /\ promises.settles < MaxSettles
  /\ \E n \in {promises.settles + 1} :
       promises' = [promiseReject(promises, 1, NumberValue(n)) EXCEPT !.settles = @ + 1]
  /\ UNCHANGED <<pipelineVars, channelVars, stmVars, resolver, scheduler, actors>>

\* promise.then(onFulfilled) on a promise of the table
Then ==
  /\ pc = "promises" /\ Len(promises.handlers) < MaxHandlers
  /\ \E p \in 1..Len(promises.table), behaviour \in {"return", "throw"} :
       promises' = Register(promises, p, "then", behaviour)
  /\ UNCHANGED <<pipelineVars, channelVars, stmVars, resolver, scheduler, actors>>

\* promise.catch(onRejected) on a promise of the table
Catch ==
  /\ pc = "promises" /\ Len(promises.handlers) < MaxHandlers
  /\ \E p \in 1..Len(promises.table), behaviour \in {"return", "throw"} :
       promises' = Register(promises, p, "catch", behaviour)
  /\ UNCHANGED <<pipelineVars, channelVars, stmVars, resolver, scheduler, actors>>

\* the event loop runs the oldest callback
RunPromiseCallback ==
  /\ pc = "promises" /\ promises.immediates # <<>>
  /\ promises' = RunCallback(promises)
  /\ UNCHANGED <<pipelineVars, channelVars, stmVars, resolver, scheduler, actors>>

PromiseNext == CallResolve \/ CallReject \/ Then \/ Catch \/ RunPromiseCallback

\* the event loop runs every callback that setImmediate queued; the calls
\* of resolve, reject, then and catch are the program's
PromiseSpec == PromiseInit /\ [][PromiseNext]_vars /\ WF_vars(RunPromiseCallback)

(***************************************************************************)
(* ActorSystem (src/src/concurrency/async.ts, 166-254).  The calls are     *)
(* made by one JavaScript thread.  processMessages is an async function:   *)
(* a call runs up to its first await, and the activation is resumed later, *)
(* when the promise of actor.receive has settled.  actors.awaiting holds   *)
(* the suspended activations, each named by the message it awaits;         *)
(* actors.log records when receive was called for a message ("begin"),     *)
(* when its promise settled ("end") and what console.error got ("error").  *)
(* The k-th send call sends message k.                                     *)
(***************************************************************************)
ActorNames == {"a", "b"}

Recipients == {"a", "b", "c"}

\* a guard that lets every call of processMessages start a loop
Busy_Never(system) == FALSE

\* line 191: this.isProcessing
Busy(system) == system.isProcessing

\* the while loop of processMessages (lines 194-205) from its test up to the
\* next await, or to line 207 when the queue is empty
RECURSIVE ProcessLoop(_)
ProcessLoop(system) ==
  IF Len(system.messageQueue) > 0
  THEN Only([message \in {Head(system.messageQueue)} |->
       Only([shifted \in {[system EXCEPT !.messageQueue = Tail(@)]} |->
         IF message.recipient \in shifted.registered
         THEN [shifted EXCEPT !.awaiting = @ \cup {message.id},
                              !.log = Append(@, [ev |-> "begin", id |-> message.id])]
         ELSE ProcessLoop(shifted)])])
  ELSE [system EXCEPT !.isProcessing = FALSE]

\* ActorSystem.processMessages, lines 190-208, up to its first await
processMessages(system) ==
  IF Busy(system) THEN system
  ELSE ProcessLoop([system EXCEPT !.isProcessing = TRUE])

\* ActorSystem.getInstance(), lines 172-177
ActorInit ==
  /\ NoPipeline("actors") /\ NoChannel /\ NoSTM /\ NoLibrary({"actors"})
  /\ actors = [registered |-> {}, messageQueue |-> <<>>, isProcessing |-> FALSE,
               sent |-> <<>>, awaiting |-> {}, log |-> <<>>]

\* system.spawn(name, behavior), lines 179-183
Spawn ==
  /\ pc = "actors"
  /\ \E name \in ActorNames \ actors.registered :
       actors' = [actors EXCEPT !.registered = @ \cup {name}]
  /\ UNCHANGED <<pipelineVars, channelVars, stmVars, resolver, promises, scheduler>>

\* system.send(recipient, new Message(recipient, payload)), lines 185-188;
\* sent keeps whether the recipient was registered at the call
ActorSend ==
  /\ pc = "actors" /\ Len(actors.sent) < MaxMessages
  /\ \E recipient \in Recipients :
       actors' = processMessages(
                   [actors EXCEPT !.messageQueue =
                                    Append(@, [id |-> Len(actors.sent) + 1,
                                               recipient |-> recipient]),
                                  !.sent = Append(@, [recipient |-> recipient,
                                                      known |-> recipient \in actors.registered])])
  /\ UNCHANGED <<pipelineVars, channelVars, stmVars, resolver, promises, scheduler>>

\* the promise of actor.receive(message) settles and the activation that
\* awaits it goes on: a rejection is caught and reported (lines 201-203),
\* and the loop continues
Settle ==
  /\ pc = "actors"
  /\ \E id \in actors.awaiting, outcome \in {"fulfilled", "rejected"} :
       actors' = ProcessLoop(
                   [actors EXCEPT !.awaiting = @ \ {id},
                                  !.log = @ \o (IF outcome = "rejected"
                                                THEN <<[ev |-> "end", id |-> id],
                                                       [ev |-> "error", id |-> id]>>
                                                ELSE <<[ev |-> "end", id |-> id]>>)])
  /\ UNCHANGED <<pipelineVars, channelVars, stmVars, resolver, promises, scheduler>>

ActorNext == Spawn \/ ActorSend \/ Settle

\* every call of an actor's receive settles in the end
ActorSpec == ActorInit /\ [][ActorNext]_vars /\ WF_vars(Settle)

(***************************************************************************)
(* WorkStealingScheduler (src/src/concurrency/async.ts, 454-566).  The     *)
(* calls are made by one JavaScript thread.  WorkerThread.start is an      *)
(* async function: a call runs up to its first await, and the activation   *)
(* is resumed when the promise of task.work() has settled.                 *)
(* scheduler.loops holds the suspended activations of start: the worker,   *)
(* the task awaited and who called start ("addTask" or "shutdown").        *)
(* scheduler.tasks holds, for the k-th scheduled task, how often work()    *)
(* was called and whether its promise has settled.  stealRequests is never *)
(* written and stays 0, so the loop of start tests the queue only.         *)
(***************************************************************************)
NumWorkers == 2

Priorities == {0, 1}

NewWorkerThread == [queue |-> <<>>, isRunning |-> FALSE]

\* this.queue.sort((a, b) => b.priority - a.priority): a stable sort
RECURSIVE SortByPriority(_)
SortByPriority(queue) ==
  IF queue = <<>> THEN <<>>
  ELSE Only([sorted \in {SortByPriority(SubSeq(queue, 1, Len(queue) - 1))} |->
       Only([last \in {queue[Len(queue)]} |->
       Only([n \in {Cardinality({i \in 1..Len(sorted) :
                                   sorted[i].priority >= last.priority})} |->
         SubSeq(sorted, 1, n) \o <<last>> \o SubSeq(sorted, n + 1, Len(sorted))])])])

\* the while loop of WorkerThread.start (lines 480-493) from its test up to
\* the next await, or to line 495 when the queue is empty
ContinueLoop(sch, w, origin) ==
  IF Len(sch.workers[w].queue) > 0
  THEN Only([task \in {Head(sch.workers[w].queue)} |->
         [sch EXCEPT !.workers[w].queue = Tail(@),
                     !.tasks[task.id].started = @ + 1,
                     !.loops = @ \cup {[worker |-> w, task |-> task.id,
                                        origin |-> origin]}]])
  ELSE [sch EXCEPT !.workers[w].isRunning = FALSE]

\* WorkerThread.start, lines 477-496, up to its first await
start(sch, w, origin) ==
  ContinueLoop([sch EXCEPT !.workers[w].isRunning = TRUE], w, origin)

\* WorkerThread.addTask, lines 468-475
addTask(sch, w, task) ==
  Only([pushed \in {[sch EXCEPT !.workers[w].queue =
                                  SortByPriority(Append(@, task))]} |->
    IF ~pushed.workers[w].isRunning THEN start(pushed, w, "addTask") ELSE pushed])

RECURSIVE AddTasks(_, _, _, _)
\* for (const task of stolenTasks) minWorker.addTask(task)
AddTasks(sch, w, stolen, i) ==
  IF i > Len(stolen) THEN sch
  ELSE AddTasks(addTask(sch, w, stolen[i]), w, stolen, i + 1)

\* the loop of balanceLoad (lines 537-547): the first worker with the
\* longest queue and the first worker with the shortest queue
MaxWorker(sch) ==
  CHOOSE w \in 1..NumWorkers :
    /\ \A v \in 1..NumWorkers : Len(sch.workers[v].queue) <= Len(sch.workers[w].queue)
    /\ \A v \in 1..(w - 1) : Len(sch.workers[v].queue) < Len(sch.workers[w].queue)

MinWorker(sch) ==
  CHOOSE w \in 1..NumWorkers :
    /\ \A v \in 1..NumWorkers : Len(sch.workers[v].queue) >= Len(sch.workers[w].queue)
    /\ \A v \in 1..(w - 1) : Len(sch.workers[v].queue) > Len(sch.workers[w].queue)

\* WorkStealingScheduler.balanceLoad, lines 532-556, with stealHalf (lines
\* 503-506) taking the first half of the longest queue
balanceLoad(sch) ==
  Only([maxWorker \in {MaxWorker(sch)} |->
  Only([minWorker \in {MinWorker(sch)} |->
    IF Len(sch.workers[maxWorker].queue) - Len(sch.workers[minWorker].queue) > 2
    THEN Only([half \in {Len(sch.workers[maxWorker].queue) \div 2} |->
           AddTasks([sch EXCEPT !.workers[maxWorker].queue =
                                  SubSeq(@, half + 1, Len(@)),
                                !.moved = @ + half],
                    minWorker, SubSeq(sch.workers[maxWorker].queue, 1, half), 1)])
    ELSE sch])])

\* WorkStealingScheduler.schedule, lines 524-530; roundRobinIndex is 0-based
schedule(sch, task) ==
  balanceLoad([addTask(sch, sch.roundRobinIndex + 1, task)
                 EXCEPT !.roundRobinIndex = (@ + 1) % NumWorkers])

RECURSIVE StartAll(_, _)
\* this.workers.map(worker => worker.start()), line 560
StartAll(sch, w) ==
  IF w > NumWorkers THEN sch ELSE StartAll(start(sch, w, "shutdown"), w + 1)

\* new WorkStealingScheduler(NumWorkers)
SchedulerInit ==
  /\ NoPipeline("scheduler") /\ NoChannel /\ NoSTM /\ NoLibrary({"scheduler"})
  /\ scheduler = [workers |-> [w \in 1..NumWorkers |-> NewWorkerThread],
                  roundRobinIndex |-> 0, loops |-> {}, tasks |-> <<>>,
                  moved |-> 0, shutdown |-> "none", before |-> 0]

\* scheduler.schedule(new Task(id, work, priority)); the k-th call
\* schedules task k
Schedule ==
  /\ pc = "scheduler" /\ Len(scheduler.tasks) < MaxScheduled
  /\ \E priority \in Priorities :
       scheduler' = schedule([scheduler EXCEPT !.tasks =
                                Append(@, [started |-> 0, settled |-> FALSE])],
                             [id |-> Len(scheduler.tasks) + 1, priority |-> priority])
  /\ UNCHANGED <<pipelineVars, channelVars, stmVars, resolver, promises, actors>>

\* the promise of task.work() settles and the activation of start that
\* awaits it goes on (a rejection is caught and reported, lines 486-488)
Finish ==
  /\ pc = "scheduler"
  /\ \E loop \in scheduler.loops :
       scheduler' = ContinueLoop([scheduler EXCEPT !.loops = @ \ {loop},
                                                  !.tasks[loop.task].settled = TRUE],
                                 loop.worker, loop.origin)
  /\ UNCHANGED <<pipelineVars, channelVars, stmVars, resolver, promises, actors>>

\* scheduler.shutdown(), lines 558-561, up to its await; before keeps the
\* number of tasks scheduled so far
Shutdown ==
  /\ pc = "scheduler" /\ scheduler.shutdown = "none"
  /\ scheduler' = StartAll([scheduler EXCEPT !.shutdown = "called",
                                             !.before = Len(scheduler.tasks)], 1)
  /\ UNCHANGED <<pipelineVars, channelVars, stmVars, resolver, promises, actors>>

\* Promise.all of line 560 resolves: every activation of start that
\* shutdown made has returned
ShutdownResolves ==
  /\ pc = "scheduler" /\ scheduler.shutdown = "called"
  /\ \A loop \in scheduler.loops : loop.origin # "shutdown"
  /\ scheduler' = [scheduler EXCEPT !.shutdown = "resolved"]
  /\ UNCHANGED <<pipelineVars, channelVars, stmVars, resolver, promises, actors>>

SchedulerNext == Schedule \/ Finish \/ Shutdown \/ ShutdownResolves

SchedulerSpec == SchedulerInit /\ [][SchedulerNext]_vars

(***************************************************************************)
(* Properties                                                              *)
(***************************************************************************)
Runs == 1..Len(runs)

\* the "call" event that opened activation frame in log
CallEvent(log, frame) ==
  log[CHOOSE i \in 1..Len(log) : log[i].ev = "call" /\ log[i].frame = frame]

\* a statement list declares name, at any depth of its if-branches
RECURSIVE DeclaresName(_, _)
DeclaresName(statements, name) ==
  \E i \in 1..Len(statements) :
    LET s == statements[i]
    IN  \/ s.kind \in {"VariableDeclaration", "FunctionDeclaration"} /\ s.name = name
        \/ /\ s.kind = "IfStatement"
           /\ \/ DeclaresName(s.thenBranch, name)
              \/ ~IsNull(s.elseBranch) /\ DeclaresName(s.elseBranch.statements, name)

\* a function's parameters or body rebind name
Shadows(declaration, name) ==
  \/ \E i \in 1..Len(declaration.params) : declaration.params[i].name = name
  \/ DeclaresName(declaration.body, name)

\* event j of a checker log opens a function body that is still open at i
InBody(log, j, i) ==
  /\ j < i
  /\ log[j].ev = "body"
  /\ ~\E k \in (j + 1)..(i - 1) : log[k].ev = "bodyend" /\ log[k].depth = log[j].depth

CheckerResolvesOwnName ==
  \A c \in 1..Len(checks) :
    LET log == checks[c].log
    IN  \A i \in 1..Len(log), j \in 1..Len(log) :
          ( /\ log[i].ev = "lookup"
            /\ InBody(log, j, i)
            /\ log[j].name = log[i].name
            /\ ~Shadows(log[j].val.declaration, log[i].name) )
          => log[i].val = log[j].val.type

InterpreterResolvesOwnName ==
  \A run \in Runs : LET log == runs[run].log IN
    \A i \in 1..Len(log) :
      (log[i].ev = "lookup" /\ log[i].frame > 0)
      => LET c == CallEvent(log, log[i].frame)
         IN  (log[i].name = c.name /\ ~Shadows(c.val.declaration, c.name))
             => /\ log[i].val.kind = "Function"
                /\ log[i].val.declaration = c.val.declaration

\* C1: direct recursion resolves in both stages: inside the body of a
\* function, its own (unshadowed) name resolves to the function's type in the
\* checker and evaluates to the function in the interpreter.
C1_DirectRecursionResolves == CheckerResolvesOwnName /\ InterpreterResolvesOwnName

\* C2: the whole pipeline on the factorial program raises no lexical, parse
\* or type error, and the final call factorial(5) evaluates to 120.
C2_FactorialYields120 ==
  (source = FactorialSource /\ history = <<"typeCheck", "interpret">>)
  => /\ parsed.caught = <<>>
     /\ checks[1].thrown = Null
     /\ \E i \in 1..Len(runs[1].log) :
          LET e == runs[1].log[i]
          IN  /\ e.ev = "callexit"
              /\ e.name = "factorial"
              /\ CallEvent(runs[1].log, e.frame).aux = <<NumberValue(5)>>
              /\ e.aux.sig = "ok"
              /\ e.val = NumberValue(120)

\* some execution of a function declaration, in a run made so far, created
\* function value func in environment env
DeclaredIn(func, env) ==
  \E r \in Runs :
    \E k \in 1..Len(runs[r].log) :
      LET d == runs[r].log[k]
      IN  d.ev = "decl" /\ d.val = func /\ d.env = env

\* C3: a call runs in the environment the function's declaration saw, plus
\* the bound parameters; an identifier the function does not rebind evaluates
\* inside the body to the value it had in the declaring scope at declaration
\* time (undefined if it had none), whatever was declared there afterwards.
C3_ClosureIsDeclarationSnapshot ==
  \A run \in Runs : LET log == runs[run].log IN
    \A i \in 1..Len(log) :
      /\ log[i].ev = "call"
         => \E env \in {log[i].val.closure} :
              /\ DeclaredIn(log[i].val, env)
              /\ log[i].env = BindParams(env, log[i].val.declaration.params, log[i].aux, 1)
      /\ (log[i].ev = "lookup" /\ log[i].frame > 0)
         => LET c == CallEvent(log, log[i].frame)
            IN  ~Shadows(c.val.declaration, log[i].name)
                => /\ DeclaredIn(c.val, c.val.closure)
                   /\ log[i].val = lookupVariable(c.val.closure, log[i].name)

\* C3 witness: a body reads a name that the caller's scope has rebound since
\* the declaration, and gets the old value
C3_Witness ==
  \E run \in Runs : LET log == runs[run].log IN
    \E i \in 1..Len(log) :
      /\ log[i].ev = "lookup" /\ log[i].frame > 0
      /\ ~Shadows(CallEvent(log, log[i].frame).val.declaration, log[i].name)
      /\ ~IsNull(log[i].val)
      /\ \E j \in (i + 1)..Len(log) :
           /\ log[j].ev = "callexit" /\ log[j].frame = log[i].frame
           /\ MapHas(log[j].aux.before, log[i].name)
           /\ log[j].aux.before[log[i].name] # log[i].val

\* C4: when an if-branch has run, however it ended, the environment is the
\* one from before the branch, and the next statement of the enclosing block
\* starts in that environment.
C4_BlockScopeRestored ==
  \A run \in Runs : LET log == runs[run].log IN
    \A i \in 1..Len(log) :
      log[i].ev = "ifexit"
      => /\ log[i].env = log[i].aux
         /\ \A j \in (i + 1)..Len(log) :
              ( /\ log[j].ev = "stmt" /\ log[j].blk = log[i].blk
                /\ ~\E k \in (i + 1)..(j - 1) : log[k].ev = "stmt" /\ log[k].blk = log[i].blk )
              => log[j].env = log[i].aux

\* C4 witness: a branch that rebound a name was left by return, and the
\* binding was dropped
C4_Witness ==
  \E run \in Runs : LET log == runs[run].log IN
    \E i \in 2..Len(log) :
      /\ log[i].ev = "ifexit" /\ log[i].val = "ret"
      /\ log[i - 1].env # log[i].env
      /\ \E name \in DOMAIN log[i].env : log[i - 1].env[name] # log[i].env[name]

\* C5: a call runs in the closure plus the bound parameters, and when it
\* ends, however it ends, the caller's environment is the one from before
\* the call.
C5_CallEnvironmentDiscarded ==
  \A run \in Runs : LET log == runs[run].log IN
    \A i \in 1..Len(log) :
      /\ log[i].ev = "call"
         => log[i].env = BindParams(log[i].val.closure,
                                    log[i].val.declaration.params, log[i].aux, 1)
      /\ log[i].ev = "callexit" => log[i].env = log[i].aux.before

\* C5 witness: a call ended by a runtime error, and a binding of the callee
\* (its parameter) is gone from the caller's environment
C5_Witness ==
  \E run \in Runs : LET log == runs[run].log IN
    \E i \in 2..Len(log) :
      /\ log[i].ev = "callexit" /\ log[i].aux.sig = "err"
      /\ MapHas(log[i - 1].env, "n") /\ ~MapHas(log[i].env, "n")

\* C6: once a return statement has executed in an activation, nothing more
\* of that activation's body executes, and the call's value is the returned
\* value.
C6_ReturnUnwinds ==
  \A run \in Runs : LET log == runs[run].log IN
    \A i \in 1..Len(log) :
      (log[i].ev = "return" /\ log[i].frame > 0)
      => /\ \A j \in (i + 1)..Len(log) :
              log[j].frame = log[i].frame => log[j].ev \in {"ifexit", "callexit"}
         /\ \E j \in (i + 1)..Len(log) :
              /\ log[j].ev = "callexit" /\ log[j].frame = log[i].frame
              /\ log[j].aux.sig = "ok"
              /\ log[j].val = log[i].val

\* C6 witness: a return inside an if-branch that has a statement after it,
\* in a body that has a statement after the if
C6_Witness ==
  \E run \in Runs : LET log == runs[run].log IN
    \E i \in 1..(Len(log) - 2) :
      /\ log[i].ev = "return" /\ log[i].frame > 0
      /\ log[i + 1].ev = "ifexit"
      /\ log[i + 2].ev = "callexit" /\ log[i + 2].val = NumberValue(1)
      /\ Len(CallEvent(log, log[i].frame).val.declaration.body) = 2

\* C7: a call whose body completes without a return statement evaluates to
\* the number 0.
C7_NoReturnYieldsZero ==
  \A run \in Runs : LET log == runs[run].log IN
    \A i \in 1..Len(log) :
      (log[i].ev = "callexit" /\ log[i].aux.body = "ok")
      => (log[i].aux.sig = "ok" /\ log[i].val = NumberValue(0))

\* C7 witness: the body's last expression statement computed a value other
\* than 0, or the declared return type is string, and the call yields 0
C7_Witness ==
  \E run \in Runs : LET log == runs[run].log IN
    \E i \in 1..Len(log) :
      /\ log[i].ev = "callexit" /\ log[i].aux.body = "ok"
      /\ log[i].val = NumberValue(0)
      /\ \/ log[i].aux.last = NumberValue(3)
         \/ /\ log[i].aux.last = StringValue("s")
            /\ CallEvent(log, log[i].frame).val.declaration.returnType
                 = PrimitiveType("string")

\* an event at which the running statement fails
IsFailure(e) ==
  \/ e.ev = "lookup" /\ IsNull(e.val)
  \/ e.ev = "notfunction"
  \/ e.ev = "binary" /\ e.aux.sig = "err"

\* the top-level statement during which event i of log happened
TopOf(log, i) ==
  LET j == CHOOSE j \in 1..i :
             log[j].ev = "top" /\ \A k \in (j + 1)..i : log[k].ev # "top"
  IN  log[j].val

\* C8: a runtime failure during top-level statement i ends the run: no later
\* statement executes, the failure is reported, and interpret returns.
C8_FailureHaltsRun ==
  \A r \in 1..Len(runs) :
    LET log == runs[r].log
    IN  /\ runs[r].thrown = Null
        /\ runs[r].reported # <<>>
           => runs[r].reported[1].at = TopOf(log, Len(log))
        /\ \A i \in 1..Len(log) :
             IsFailure(log[i])
             => /\ Len(runs[r].reported) = 1
                /\ runs[r].reported[1].at = TopOf(log, i)
                /\ \A j \in (i + 1)..Len(log) : log[j].ev # "top" /\ log[j].ev # "stmt"

\* C8 witness: the failing statement is not the last one of the program
C8_Witness ==
  \E r \in 1..Len(runs) :
    /\ Len(runs[r].reported) = 1
    /\ runs[r].reported[1].at < Len(ast)
    /\ \E i \in 1..Len(runs[r].log) : IsFailure(runs[r].log[i])

\* what a run lets the program observe: which statements ran and whether
\* each identifier was found
Observed(log) ==
  LET seen == SelectSeq(log, LAMBDA e : e.ev \in {"top", "lookup"})
  IN  [i \in 1..Len(seen) |->
         [ev |-> seen[i].ev, name |-> seen[i].name,
          found |-> seen[i].ev = "top" \/ ~IsNull(seen[i].val)]]

\* C9: typeCheck then interpret, twice, on the same tree: both rounds give
\* the same results and side effects; the second run observes no binding
\* created by the first.
C9_RunsAreIndependent ==
  history = <<"typeCheck", "interpret", "typeCheck", "interpret">>
  => /\ checks[1].thrown = checks[2].thrown
     /\ runs[1].reported = runs[2].reported
     /\ Observed(runs[1].log) = Observed(runs[2].log)

\* C10: a call of a registered built-in does not fail as a call of a
\* non-function; it yields the result of the built-in's host callable.
C10_BuiltinsAreCallable ==
  \A run \in Runs : LET log == runs[run].log IN
    \A i \in 1..Len(log) :
      ~(log[i].ev = "notfunction" /\ log[i].val.kind = "Builtin")

\* C11: a division of a number by a right operand that evaluated to 0 fails
\* with the runtime error "Division by zero", which the run reports; no
\* binary expression yields a number with a zero denominator (Infinity, NaN).
C11_DivisionByZeroFails ==
  \A run \in Runs : LET log == runs[run].log IN
    \A i \in 1..Len(log) :
      log[i].ev = "binary"
      => /\ ( /\ log[i].name = DIVIDE
              /\ log[i].aux.left.kind = "Number"
              /\ log[i].aux.right.kind = "Number"
              /\ log[i].aux.right.num = 0 )
            => /\ log[i].aux.sig = "err"
               /\ log[i].val = "Division by zero"
               /\ Len(runs[run].reported) = 1
               /\ runs[run].reported[1].error = "Division by zero"
         /\ (log[i].aux.sig = "ok" /\ log[i].val.kind = "Number")
            => log[i].val.den > 0

\* C11 witness: a nonzero number was divided by the value of an expression
\* that is not a literal and evaluated to 0
C11_Witness ==
  \E run \in Runs : LET log == runs[run].log IN
    \E i \in 2..Len(log) :
      /\ log[i].ev = "binary" /\ log[i].name = DIVIDE
      /\ log[i].aux.left = NumberValue(2) /\ log[i].aux.right = NumberValue(0)
      /\ log[i].aux.sig = "err"
      /\ log[i - 1].ev = "binary" /\ log[i - 1].name = MINUS

\* C12: `==` and `!=` never raise an error; `==` yields true exactly when
\* the two operand values are of the same variant and equal (false for
\* values of different variants), and `!=` yields the negation.
C12_RuntimeEquality ==
  \A run \in Runs : LET log == runs[run].log IN
    \A i \in 1..Len(log) :
      (log[i].ev = "binary" /\ log[i].name \in {EQUAL, NOT_EQUAL})
      => /\ log[i].aux.sig = "ok"
         /\ log[i].val =
              BooleanValue((log[i].aux.left = log[i].aux.right)
                           <=> (log[i].name = EQUAL))

Checks == 1..Len(checks)

\* C13: a variable declaration whose initializer (if any) was typed: with
\* annotation and initializer it is accepted iff the two types are
\* structurally equal; with only an initializer it is accepted and binds the
\* initializer's type; with only an annotation it is accepted and binds the
\* annotation; with neither it fails (cannot infer) and the scope is left as
\* it was.  An accepted declaration binds the name, a rejected one binds
\* nothing.
C13_VariableDeclarationRule ==
  \A c \in Checks : LET log == checks[c].log IN
    \A i \in 1..Len(log) :
      log[i].ev = "declare"
      => LET d == log[i].val
             bound == IF IsNull(d.annotation) THEN d.initializer ELSE d.annotation
         IN  /\ (~IsNull(d.annotation) /\ ~IsNull(d.initializer))
                => ((d.sig = "ok") <=> (d.initializer = d.annotation))
             /\ (IsNull(d.annotation) /\ ~IsNull(d.initializer)) => d.sig = "ok"
             /\ (~IsNull(d.annotation) /\ IsNull(d.initializer)) => d.sig = "ok"
             /\ (IsNull(d.annotation) /\ IsNull(d.initializer))
                => (d.sig = "err" /\ d.error = "Cannot infer type for variable")
             /\ d.sig = "ok" => log[i].scope = MapSet(d.before, log[i].name, bound)
             /\ d.sig = "err" => log[i].scope = d.before

\* C13 witness: a declaration with only an annotation was accepted over an
\* earlier binding of another type, and the later use resolved to the
\* annotation
C13_Witness ==
  \E c \in Checks : LET log == checks[c].log IN
    \E i \in 1..Len(log) :
      /\ log[i].ev = "declare" /\ log[i].val.sig = "ok"
      /\ IsNull(log[i].val.initializer)
      /\ log[i].val.annotation = number
      /\ MapHas(log[i].val.before, log[i].name)
      /\ log[i].val.before[log[i].name] = PrimitiveType("string")
      /\ i + 1 < Len(log) /\ log[i + 2].ev = "lookup"
      /\ log[i + 2].name = log[i].name /\ log[i + 2].val = number

\* C14: a binary expression whose operands were typed: `+ - * /` are
\* accepted, with type number, iff both operand types are number; `< >` are
\* accepted, with type boolean, iff both are number; `== !=` are accepted,
\* with type boolean, iff the operand types are structurally equal; every
\* other combination is a type error.
C14_BinaryExpressionRule ==
  \A c \in Checks : LET log == checks[c].log IN
    \A i \in 1..Len(log) :
      log[i].ev = "binary"
      => LET b == log[i].val
             numbers == b.left = number /\ b.right = number
         IN  /\ log[i].name \in {PLUS, MINUS, MULTIPLY, DIVIDE}
                => /\ (b.sig = "ok") <=> numbers
                   /\ b.sig = "ok" => b.type = number
             /\ log[i].name \in {LESS, GREATER}
                => /\ (b.sig = "ok") <=> numbers
                   /\ b.sig = "ok" => b.type = PrimitiveType("boolean")
             /\ log[i].name \in {EQUAL, NOT_EQUAL}
                => /\ (b.sig = "ok") <=> (b.left = b.right)
                   /\ b.sig = "ok" => b.type = PrimitiveType("boolean")

\* C15: a function call whose callee and checked arguments were typed is
\* accepted iff the callee's type is a function type, the argument count is
\* the parameter count and every argument's type is the parameter's type;
\* an accepted call has the declared return type; a call rejected for an
\* argument names the index of the first argument whose type differs.
C15_FunctionCallRule ==
  \A c \in Checks : LET log == checks[c].log IN
    \A i \in 1..Len(log) :
      log[i].ev = "call"
      => LET v == log[i].val
             callable == /\ v.callee.kind = "FunctionType"
                         /\ v.count = Len(v.callee.params)
             matching == \A j \in 1..Len(v.args) : v.args[j] = v.callee.params[j]
         IN  /\ (v.sig = "ok") <=> (callable /\ matching)
             /\ v.sig = "ok"
                => (Len(v.args) = v.count /\ v.type = v.callee.returnType)
             /\ (v.sig = "err" /\ callable)
                => /\ v.error.message = "Argument"
                   /\ v.error.index = Len(v.args)
                   /\ v.args[v.error.index] # v.callee.params[v.error.index]
                   /\ \A j \in 1..(v.error.index - 1) :
                        v.args[j] = v.callee.params[j]

\* C15 witness: a call of the two-parameter function with two arguments
\* was rejected for its second argument after its first was accepted
C15_Witness ==
  \E c \in Checks : LET log == checks[c].log IN
    \E i \in 1..Len(log) :
      /\ log[i].ev = "call" /\ log[i].val.sig = "err"
      /\ log[i].val.callee.kind = "FunctionType"
      /\ Len(log[i].val.callee.params) = 2
      /\ log[i].val.count = 2
      /\ log[i].val.error.index = 2
      /\ log[i].val.args[1] = number

\* what the checker resolves a name to with the scope and saved scopes of a
\* log entry
Resolve(e, name) == checkerLookupVariable([scope |-> e.scope, scopes |-> e.scopes], name)

\* the entry of the block that the exit at position j of the log closes
EnterOf(log, j) ==
  CHOOSE i \in 1..(j - 1) :
    /\ log[i].ev = "enter" /\ log[i].depth = log[j].depth + 1
    /\ \A k \in (i + 1)..(j - 1) :
         ~(log[k].ev = "enter" /\ log[k].depth = log[j].depth + 1)

\* C16: when the checker leaves a function body or an if-branch, its scope
\* and its saved scopes are what they were at entry, at every depth: each
\* name bound at any point inside the block (parameters, new names,
\* redeclared names) resolves after the block as it did at entry.
C16_CheckerScopeRestored ==
  \A c \in Checks : LET log == checks[c].log IN
    \A j \in 1..Len(log) :
      log[j].ev = "exit"
      => LET i == EnterOf(log, j)
         IN  /\ log[j].scope = log[i].scope
             /\ log[j].scopes = SubSeq(log[i].scopes, 1, Len(log[i].scopes) - 1)
             /\ \A k \in i..j : \A name \in DOMAIN log[k].scope :
                  Resolve(log[j], name) = Resolve(log[i], name)

\* C16 witness: a block nested inside another block was left after it had
\* bound a new name and rebound an outer name to another type
C16_Witness ==
  \E c \in Checks : LET log == checks[c].log IN
    \E j \in 1..Len(log) :
      /\ log[j].ev = "exit" /\ log[j].depth >= 2
      /\ \E k \in EnterOf(log, j)..j :
           /\ \E name \in DOMAIN log[k].scope : IsNull(Resolve(log[j], name))
           /\ \E name \in DOMAIN log[k].scope :
                /\ ~IsNull(Resolve(log[j], name))
                /\ log[k].scope[name] # Resolve(log[j], name)

\* C17: a program that typeCheck accepted, run by an interpreter with no
\* built-ins, finds every identifier it evaluates bound: the checker resolved
\* each of them, so no evaluation fails with an undefined variable.
C17_TypeVisibilityMatchesRuntime ==
  ( /\ history = <<"typeCheck", "interpret">>
    /\ checks[1].thrown = Null
    /\ runs[1].initial = EmptyMap )
  => \A i \in 1..Len(runs[1].log) :
       runs[1].log[i].ev = "lookup" => ~IsNull(runs[1].log[i].val)

RECURSIVE ExpressionTyped(_, _)
RECURSIVE StatementsTyped(_, _)

\* every Expression node of expr carries a type (all = TRUE); no Expression
\* node of expr carries a type (all = FALSE)
ExpressionTyped(expr, all) ==
  /\ IsNull(expr.type) = ~all
  /\ CASE expr.kind = "BinaryExpression" ->
             ExpressionTyped(expr.left, all) /\ ExpressionTyped(expr.right, all)
        [] expr.kind = "FunctionCall" ->
             /\ ExpressionTyped(expr.callee, all)
             /\ \A i \in 1..Len(expr.args) : ExpressionTyped(expr.args[i], all)
        [] OTHER -> TRUE

StatementsTyped(statements, all) ==
  \A i \in 1..Len(statements) :
    LET s == statements[i]
    IN  CASE s.kind = "VariableDeclaration" ->
               IsNull(s.initializer) \/ ExpressionTyped(s.initializer, all)
          [] s.kind = "FunctionDeclaration" -> StatementsTyped(s.body, all)
          [] s.kind = "IfStatement" ->
               /\ ExpressionTyped(s.condition, all)
               /\ StatementsTyped(s.thenBranch, all)
               /\ IsNull(s.elseBranch) \/ StatementsTyped(s.elseBranch.statements, all)
          [] s.kind = "ReturnStatement" ->
               IsNull(s.value) \/ ExpressionTyped(s.value, all)
          [] s.kind = "ExpressionStatement" -> ExpressionTyped(s.expression, all)

\* the number of top-level statements a first typeCheck handed to
\* checkStatement
Begun(log) == Cardinality({i \in 1..Len(log) : log[i].ev = "statement" /\ log[i].depth = 0})

\* C18: after typeCheck on a new checker, either it failed and no statement
\* after the failing one was checked (none of their expressions carries a
\* type), or it returned and every Expression node of the tree, in every
\* statement variant, return statements included, carries a type.
C18_FailFastOrFullyTyped ==
  history = <<"typeCheck">>
  => IF checks[1].thrown = Null
     THEN StatementsTyped(ast, TRUE)
     ELSE StatementsTyped(SubSeq(ast, Begun(checks[1].log) + 1, Len(ast)), FALSE)

\* the statement list that parse returns for a source text on its own
Parsed(text) == parse(tokenize(text).tokens).statements

\* C19: for a malformed statement followed by a well-formed one, parse
\* returns the well-formed statement at its own nesting level: as the
\* statement list when the two are at top level, as the body of the function
\* or the then-branch of the if statement when the two are inside one.
C19_ParserRecovers ==
  pc = "ast"
  => \A bad \in Malformed, good \in WellFormed :
       /\ source = bad \o good => parsed.statements = Parsed(good)
       /\ source = InFunction(bad \o good)
          => /\ Len(parsed.statements) = 1
             /\ parsed.statements[1].kind = "FunctionDeclaration"
             /\ parsed.statements[1].body = Parsed(good)
       /\ source = InBranch(bad \o good)
          => /\ Len(parsed.statements) = 1
             /\ parsed.statements[1].kind = "IfStatement"
             /\ parsed.statements[1].thenBranch = Parsed(good)

\* C20: when statement() raised a parse failure while parsing a source, the
\* caller of parse receives a parse error: parse does not return normally
\* with a statement list as if the whole input had parsed.
C20_ParseFailuresSurfaced ==
  (pc = "ast" /\ source # "")
  => (parsed.caught = <<>> \/ parsed.thrown # Null)

\* the number a literal of the arithmetic sources denotes
NumberOf(text) ==
  CASE text = "2" -> 2 [] text = "3" -> 3 [] text = "4" -> 4
    [] text = "8" -> 8 [] text = "10" -> 10

\* the value of operands joined by operators under the standard rules, as a
\* fraction n/d: products and quotients are formed left to right into terms,
\* terms are added and subtracted left to right.  sum is the value of the
\* terms before the current one, product the current term, sign its sign.
RECURSIVE StandardValue(_, _, _, _, _)
StandardValue(input, i, sum, sign, product) ==
  IF i > Len(input.operators)
  THEN [n |-> sum.n * product.d + sign * product.n * sum.d, d |-> sum.d * product.d]
  ELSE LET x == NumberOf(input.operands[i + 1])
           op == input.operators[i]
       IN  IF op = MULTIPLY
           THEN StandardValue(input, i + 1, sum, sign, [n |-> product.n * x, d |-> product.d])
           ELSE IF op = DIVIDE
           THEN StandardValue(input, i + 1, sum, sign, [n |-> product.n, d |-> product.d * x])
           ELSE StandardValue(input, i + 1,
                              [n |-> sum.n * product.d + sign * product.n * sum.d,
                               d |-> sum.d * product.d],
                              IF op = PLUS THEN 1 ELSE -1, [n |-> x, d |-> 1])

Standard(input) ==
  StandardValue(input, 1, [n |-> 0, d |-> 1], 1,
                [n |-> NumberOf(input.operands[1]), d |-> 1])

\* the outcome of the last binary expression that a run evaluated
LastBinary(log) ==
  LET seen == SelectSeq(log, LAMBDA e : e.ev = "binary") IN seen[Len(seen)]

\* C21: for a source that is one expression of number literals joined by
\* + - * /, the pipeline (parse, typeCheck, interpret) raises no error, the
\* checker gives the expression type number, and the value the interpreter
\* computes for it is the standard arithmetic value (* and / before + and -,
\* equal precedence left to right).
C21_StandardPrecedence ==
  \A input \in ArithmeticInputs :
    (source = ArithmeticText(input, 1) /\ history = <<"typeCheck", "interpret">>)
    => /\ parsed.caught = <<>> /\ Len(parsed.statements) = 1
       /\ checks[1].thrown = Null
       /\ ast[1].expression.type = number
       /\ runs[1].thrown = Null
       /\ LET out == LastBinary(runs[1].log)
              std == Standard(input)
          IN  /\ out.aux.sig = "ok" /\ out.val.kind = "Number"
              /\ out.val.num * std.d = std.n * out.val.den

\* C21 witness: `2 + 3 * 4` was checked and evaluated to 14
C21_Witness ==
  /\ source = "2 + 3 * 4;" /\ history = <<"typeCheck", "interpret">>
  /\ LastBinary(runs[1].log).val = NumberValue(14)
  /\ LastBinary(runs[1].log).name = PLUS

\* tokenize has returned a token list for the source
Tokenized == pc \in {"parse", "ast"} /\ tokens # <<>>

\* C22: a token list that tokenize returns ends with the EOF token and holds
\* no other EOF token, also for a source that is empty or ends in white
\* space.
C22_SingleEndMarker ==
  Tokenized
  => /\ tokens[Len(tokens)].type = "EOF"
     /\ \A i \in 1..(Len(tokens) - 1) : tokens[i].type # "EOF"

\* the 1-based offsets of the line breaks of a text
Breaks(text) == {i \in 1..Len(text) : SubSeq(text, i, i) = "\n"}

\* line and column of the character that follows a text
LineAfter(text) == 1 + Cardinality(Breaks(text))

ColumnAfter(text) ==
  Len(text) + 1
  - (IF Breaks(text) = {} THEN 0
     ELSE CHOOSE i \in Breaks(text) : \A j \in Breaks(text) : j <= i)

StringTokens(toks) == SelectSeq(toks, LAMBDA t : t.type = "STRING")

TwoCharOperators == {"==", "!=", "->", "=>"}

\* the two characters of the source that start at a token's column
TwoAt(t) == IF t.column < Len(source) THEN SubSeq(source, t.column, t.column + 1) ELSE ""

RECURSIVE Spelling(_)
Spelling(toks) == IF toks = <<>> THEN "" ELSE Head(toks).value \o Spelling(Tail(toks))

\* C25: at every position where the scan stands and the next two characters
\* are ==, !=, -> or =>, tokenize emits that two-character token; only
\* otherwise does it emit the one-character operator token.
C25_TwoCharactersFirst ==
  (source \in OperatorSources /\ lexed # Null /\ lexed.thrown = Null)
  => /\ Spelling(tokens) = source
     /\ \A i \in 1..Len(tokens) :
          tokens[i].type \notin {"EOF", "IDENTIFIER"}
          => /\ tokens[i].value = SubSeq(source, tokens[i].column,
                                        tokens[i].column + Len(tokens[i].value) - 1)
             /\ tokens[i].type = tokens[i].value
             /\ (Len(tokens[i].value) = 2) = (TwoAt(tokens[i]) \in TwoCharOperators)

C25_Witness ==
  /\ source = "=->" /\ lexed # Null /\ Len(tokens) >= 2
  /\ tokens[1].type = ASSIGN /\ tokens[2].type = ARROW /\ tokens[2].column = 2

\* C26: a maximal run of letters, digits and underscores that starts with a
\* letter or underscore yields exactly one token: the keyword kind when the
\* whole run is an entry of the keyword table (BOOLEAN for true and false),
\* and IDENTIFIER for every other run, whatever its spelling.
C26_KeywordOrIdentifier ==
  \A run \in IdentifierRuns :
    (source = run \o ";" /\ lexed # Null)
    => /\ lexed.thrown = Null
       /\ Len(tokens) >= 2
       /\ tokens[1].value = run
       /\ tokens[2].type = ";"
       /\ tokens[1].type = IF run \in Keywords THEN run
                           ELSE IF run \in {"true", "false"} THEN "BOOLEAN"
                           ELSE "IDENTIFIER"

\* C27: for every source the scan ends, because every iteration of the loop
\* of tokenize consumes at least one character or raises a lexical error.
C27_TokenizeTerminates ==
  lexed # Null
  => /\ lexed.halted
     /\ Len(lexed.trace) <= Len(source)
     /\ \A i \in 1..Len(lexed.trace) :
          IF i < Len(lexed.trace) THEN lexed.trace[i] < lexed.trace[i + 1]
          ELSE lexed.thrown # Null \/ lexed.trace[i] < lexed.final
     /\ lexed.thrown = Null => lexed.final = Len(source)

\* C27 witness: a scan of two lines has ended after eleven iterations
C27_Witness ==
  /\ source = "let x = 2 + 3 * 4;\nx;" /\ lexed # Null
  /\ lexed.halted /\ lexed.thrown = Null
  /\ Len(lexed.trace) = 11 /\ lexed.final = Len(source)

\* the applications of Type.equals that a type check made, in order
RECURSIVE EqualsLog(_)
EqualsLog(log) ==
  IF log = <<>> THEN <<>>
  ELSE (IF Head(log).ev \in {"binary", "declare"} THEN Head(log).val.equals ELSE <<>>)
       \o EqualsLog(Tail(log))

\* C28: type equality is structural and symmetric: a.equals(b) holds exactly
\* when a and b are of the same variant with equal components (function
\* types: the same number of parameters, pairwise equal parameter types and
\* equal return types), and a.equals(b) = b.equals(a).
C28_StructuralSymmetricEquality ==
  \A c \in Checks : \A e \in {EqualsLog(checks[c].log)} :
    \A i \in 1..Len(e) :
      /\ e[i].result = (e[i].this = e[i].other)
      /\ \A j \in 1..Len(e) :
           (e[j].this = e[i].other /\ e[j].other = e[i].this)
           => e[j].result = e[i].result

\* C29: channel delivery is FIFO: on a channel that was not closed, the k-th
\* receive call obtains the value of the k-th send call, and no value is
\* lost: once both calls are made and no callback is waiting to run, the
\* k-th receive has obtained its value.
C29_ChannelFifo ==
  ~channel.closed
  => \A k \in 1..Len(receives) :
       /\ receives[k].promise = "resolved"
          => (k <= Len(sends) /\ receives[k].value = sends[k].value)
       /\ (k <= Len(sends) /\ immediates = <<>>) => receives[k].promise = "resolved"

\* the commit calls that returned true and wrote the counter
Committed(counter) ==
  { c \in 1..Len(commits) : /\ commits[c].outcome = "true"
                            /\ HasEntry(commits[c].transaction.writes, counter) }

\* the commit calls of a task that returned false
Conflicts(task) ==
  { c \in 1..Len(commits) : commits[c].task = task /\ commits[c].outcome = "false" }

\* C30: a commit applies the transaction's writes only if every STMValue it
\* read still has the version observed at read time, and then applies all
\* of them, raising each written value's version by exactly one; on a
\* conflict it applies none and the operation is run again.  Concurrent
\* read-increment-write transactions lose no update.
C30_TransactionsAtomic ==
  /\ \A c \in 1..Len(commits) :
       LET t == commits[c].transaction
           before == commits[c].before
           after == commits[c].after
       IN  /\ (commits[c].outcome = "true")
              <=> (\A i \in 1..Len(t.reads) : before[t.reads[i].key].version = t.reads[i].version)
           /\ commits[c].outcome = "true"
              => \A counter \in DOMAIN before :
                   IF HasEntry(t.writes, counter)
                   THEN after[counter] = [value |-> EntryOf(t.writes, counter).value,
                                          version |-> before[counter].version + 1]
                   ELSE after[counter] = before[counter]
           /\ commits[c].outcome # "true" => after = before
  /\ \A counter \in DOMAIN stm :
       /\ stm[counter].value = Cardinality(Committed(counter))
       /\ stm[counter].version = Cardinality(Committed(counter))
  /\ \A task \in DOMAIN tasks :
       /\ tasks[task].retries = Cardinality(Conflicts(task))
       /\ tasks[task].pc = "returned"
          => \E c \in 1..Len(commits) : commits[c].task = task /\ commits[c].outcome = "true"
       /\ tasks[task].pc = "thrown" => tasks[task].retries = maxRetries

\* C30 witness: a call whose first commit met a conflict has run its
\* operation again and committed, and every call has returned
C30_Witness ==
  /\ pc = "stm"
  /\ \A task \in DOMAIN tasks : tasks[task].pc = "returned"
  /\ \E task \in DOMAIN tasks : tasks[task].retries > 0
  /\ stm["y"].value = MaxTasks /\ stm["y"].version = MaxTasks

\* the 0-based offset of the first character at or after offset p that is
\* not white space
RECURSIVE SkipBlank(_, _)
SkipBlank(text, p) ==
  IF p < Len(text) /\ SubSeq(text, p + 1, p + 1) \in {" ", "\t", "\r", "\n"}
  THEN SkipBlank(text, p + 1)
  ELSE p

\* C40: every token that tokenize returns records the 1-based line and
\* column of the token's first character in the source, for every token
\* kind including string literals and tokens that follow a newline.
C40_TokenPositions ==
  (lexed # Null /\ lexed.thrown = Null /\ lexed.halted)
  => \A i \in 1..Len(lexed.trace) :
       tokens[i].type # "EOF"
       => /\ tokens[i].line =
               LineAfter(SubSeq(source, 1, SkipBlank(source, lexed.trace[i])))
          /\ tokens[i].column =
               ColumnAfter(SubSeq(source, 1, SkipBlank(source, lexed.trace[i])))

\* the 0-based index of the first EOF token of the token list
EndOfInput == (CHOOSE i \in 1..Len(tokens) : /\ tokens[i].type = "EOF"
                                             /\ \A j \in 1..(i - 1) : tokens[j].type # "EOF") - 1

\* C38: parse ends on every token list that tokenize returns: every call of
\* statement, also one that fails and resynchronizes, leaves the cursor at
\* least one token further unless it was called at end of input, and the
\* cursor never goes beyond the EOF token.
C38_ParseTerminates ==
  (pc = "ast" /\ parsed # Null)
  => /\ parsed.halted
     /\ parsed.current <= EndOfInput
     /\ \A i \in 1..Len(parsed.calls) :
          /\ parsed.calls[i].to <= EndOfInput
          /\ parsed.calls[i].from = EndOfInput \/ parsed.calls[i].from < parsed.calls[i].to

\* a statement that failed at the semicolon and was resynchronized behind
\* it, followed by a statement that parsed up to the EOF token
C38_Witness ==
  /\ pc = "ast"
  /\ source = "1 + ; let y = 5;"
  /\ Len(parsed.caught) = 1
  /\ parsed.calls = << [from |-> 0, to |-> 3], [from |-> 3, to |-> 8] >>
  /\ parsed.current = EndOfInput

\* the runtime variant that a checker type stands for; a type outside
\* number, string, boolean and function stands for every variant
Corresponds(value, type) ==
  CASE type.kind = "PrimitiveType" /\ type.name = "number" -> value.kind = "Number"
    [] type.kind = "PrimitiveType" /\ type.name = "string" -> value.kind = "String"
    [] type.kind = "PrimitiveType" /\ type.name = "boolean" -> value.kind = "Boolean"
    [] type.kind = "FunctionType" -> value.kind = "Function"
    [] OTHER -> TRUE

\* the variable declaration that the binding at log[i] executes: the last
\* declaration of that name begun before it in the same block activation
DeclarationOf(log, i) ==
  log[CHOOSE j \in 1..i :
        /\ log[j].ev = "stmt" /\ log[j].name = "VariableDeclaration"
        /\ log[j].blk = log[i].blk /\ log[j].val.name = log[i].name
        /\ \A k \in (j + 1)..i :
             ~(/\ log[k].ev = "stmt" /\ log[k].name = "VariableDeclaration"
               /\ log[k].blk = log[i].blk /\ log[k].val.name = log[i].name)].val

\* the function whose activation ends at log[i]
CalleeOf(log, i) ==
  log[CHOOSE j \in 1..i : log[j].ev = "call" /\ log[j].frame = log[i].frame].val

\* C37: in a program that typeCheck accepted, every value the interpreter
\* binds at a variable declaration has the variant of the type the checker
\* left on the declaration, also when the declaration has an annotation and
\* no initializer; and every value a call returns has the variant of the
\* callee's declared return type, which is the type the checker gave the
\* call, also when the body ran no return.
C37_TypePreservation ==
  ( /\ history = <<"typeCheck", "interpret">>
    /\ checks[1].thrown = Null )
  => \A i \in 1..Len(runs[1].log) :
       /\ runs[1].log[i].ev = "bind"
          => Corresponds(runs[1].log[i].val,
                         DeclarationOf(runs[1].log, i).typeAnnotation)
       /\ (runs[1].log[i].ev = "callexit" /\ runs[1].log[i].aux.sig = "ok")
          => Corresponds(runs[1].log[i].val,
                         CalleeOf(runs[1].log, i).declaration.returnType)
\* C33: a receive that is pending when the channel is closed is eventually
\* settled with a failure; on a closed channel every send fails, every
\* receive on an empty buffer fails, and a receive on a buffer that holds a
\* value obtains that value.
C33_CloseRejectsReaders ==
  /\ \A k \in 1..MaxReceives :
       (channel.closed /\ k <= Len(receives) /\ receives[k].promise = "pending")
       ~> (k <= Len(receives) /\ receives[k].promise = "rejected")
  /\ [](channel.closed
        => /\ send(channel, 0, 0).promise = "rejected"
           /\ receive(channel, 0).promise =
                IF channel.buffer = <<>> THEN "rejected" ELSE "resolved"
           /\ channel.buffer # <<>>
              => receive(channel, 0).value = Head(channel.buffer))

\* C35: on an open channel of any capacity, once as many receive calls as
\* send calls have been made, each of those calls eventually completes,
\* unless the channel is closed or further calls are made first.
C35_ChannelProgress ==
  \A n \in 1..MaxSends :
    (~channel.closed /\ Len(sends) = n /\ Len(receives) = n)
    ~> \/ channel.closed \/ Len(sends) # n \/ Len(receives) # n
       \/ \A k \in 1..n : /\ sends[k].promise = "resolved"
                            /\ receives[k].promise = "resolved"

\* C36: the buffer never holds more values than the capacity, and a send
\* waits in the writers queue only while the buffer is full and no receive
\* waits in the readers queue.
C36_BufferBound ==
  /\ Len(channel.buffer) <= channel.capacity
  /\ channel.writers # <<>>
     => (Len(channel.buffer) = channel.capacity /\ channel.readers = <<>>)

\* the packages named by the list that was registered for pkg when resolve
\* was called
DependenciesOf(pkg) ==
  IF MapHas(resolver.registered, pkg)
  THEN {resolver.registered[pkg][i] : i \in 1..Len(resolver.registered[pkg])}
  ELSE {}

\* the packages reachable from the packages of a set along one or more
\* dependency edges
RECURSIVE Beyond(_)
Beyond(set) ==
  Only([next \in {set \cup UNION {DependenciesOf(pkg) : pkg \in set}} |->
    IF next = set THEN set ELSE Beyond(next)])

Reachable(pkg) == {pkg} \cup Beyond(DependenciesOf(pkg))

CycleReachable(pkg) ==
  \E q \in Reachable(pkg) : q \in Beyond(DependenciesOf(q))

\* the lists that hold every package of a set exactly once
Orders(set) ==
  { list \in [1..Cardinality(set) -> set] :
      \A i, j \in 1..Cardinality(set) : list[i] = list[j] => i = j }

\* text occurs in whole
Contains(whole, text) ==
  \E i \in 0..(Len(whole) - Len(text)) : SubSeq(whole, i + 1, i + Len(text)) = text

\* C31: resolve(root) returns, when no cycle is reachable from root, Ok with
\* the JSON text of a list that holds every package reachable from root
\* exactly once, each after all of its own dependencies and root last; when
\* a cycle is reachable from root, Err with a message that contains
\* 'Circular dependency'.
C31_ResolveOrdersDependencies ==
  (resolver # Null /\ resolver.root # "")
  => IF CycleReachable(resolver.root)
     THEN /\ ~resolver.result.isOk
          /\ Contains(resolver.result.value.value, "Circular dependency")
     ELSE /\ resolver.result.isOk
          /\ \E list \in Orders(Reachable(resolver.root)) :
               /\ resolver.result.value.value = Stringify(list)
               /\ list[Len(list)] = resolver.root
               /\ \A i, j \in 1..Len(list) :
                    list[j] \in DependenciesOf(list[i]) => j < i

\* the diamond A -> B, C; B -> D; C -> D was resolved from A
C31_Witness ==
  /\ resolver # Null /\ resolver.root = "A"
  /\ resolver.registered = MapSet(MapSet(MapSet(EmptyMap, "A", <<"B", "C">>),
                                         "B", <<"D">>), "C", <<"D">>)
  /\ resolver.result = ResultValue(TRUE, StringValue("[\"D\",\"B\",\"C\",\"A\"]"))

\* the state a handler waits for: fulfilled for then, rejected for catch
Awaited(h) == IF promises.handlers[h].kind = "then" THEN "fulfilled" ELSE "rejected"

\* C32: a PromiseValue that has left pending keeps its state and value; a
\* function given to then is invoked only with the value its promise was
\* fulfilled with, at most once, never when the promise was rejected, and
\* is eventually invoked once the promise is fulfilled, whether it was
\* registered before or after; likewise a function given to catch and the
\* rejection.
C32_PromiseSettlement ==
  /\ [][\A p \in 1..Len(promises.table) :
          promises.table[p].state # "pending"
          => /\ promises.table[p].state = promises'.table[p].state
             /\ promises.table[p].value = promises'.table[p].value]_vars
  /\ [](\A h \in 1..Len(promises.handlers) :
          /\ Len(promises.handlers[h].invoked) <= 1
          /\ promises.handlers[h].invoked # <<>>
             => /\ promises.table[promises.handlers[h].promise].state = Awaited(h)
                /\ promises.handlers[h].invoked =
                     <<promises.table[promises.handlers[h].promise].value>>)
  /\ \A h \in 1..MaxHandlers :
       (/\ h <= Len(promises.handlers)
        /\ promises.table[promises.handlers[h].promise].state = Awaited(h))
       ~> (h <= Len(promises.handlers) /\ promises.handlers[h].invoked # <<>>)

\* a then registered before promise 1 was fulfilled and a then registered
\* after it were both invoked with its value, after resolve was called twice
C32_Witness ==
  /\ promises # Null
  /\ promises.table[1].state = "fulfilled" /\ promises.settles = 2
  /\ Len(promises.handlers) = 2
  /\ promises.handlers[1].promise = 1 /\ promises.handlers[1].kind = "then"
  /\ promises.handlers[2].promise = 1 /\ promises.handlers[2].kind = "then"
  /\ promises.table[1].callbacks = <<>> /\ Len(promises.table[1].errorCallbacks) = 1
  /\ promises.handlers[1].invoked = <<NumberValue(1)>>
  /\ promises.handlers[2].invoked = <<NumberValue(1)>>
  /\ promises.immediates = <<>>

\* the positions of the log where receive was called for a message
Begins(id) == {i \in 1..Len(actors.log) : actors.log[i] = [ev |-> "begin", id |-> id]}

C34_ShutdownWaits ==
  scheduler # Null
  => /\ \A id \in 1..Len(scheduler.tasks) : scheduler.tasks[id].started <= 1
     /\ scheduler.shutdown = "resolved"
        => \A id \in 1..scheduler.before :
             scheduler.tasks[id].started = 1 /\ scheduler.tasks[id].settled
====
